---- MODULE Spec2Model ----
(***************************************************************************)
(* Port benchmarking dashboard: the gap / priority analytics of            *)
(* analytics_module.PortAnalytics, the ROI estimator calculate_roi of      *)
(* port_dashboard.py, the data acquisition of data_collector.py and the    *)
(* installer of setup.py.                                                  *)
(*                                                                         *)
(* Numbers are Python / numpy floats.  A float is modelled as a record     *)
(*   [k |-> "fin", n |-> numerator, d |-> denominator > 0]  (lowest terms) *)
(*   [k |-> "nan"], [k |-> "inf"] with n = 1 or -1, and                    *)
(*   [k |-> "str"] for an argument that float() cannot convert,            *)
(*   [k |-> "zde"] for the ZeroDivisionError of a Python float division.   *)
(* Finite arithmetic is exact (rational); IEEE rounding is not modelled.   *)
(***************************************************************************)
EXTENDS Integers, Sequences, FiniteSets, TLC

VARIABLES data, ret, roi, collector, installer

vars == <<data, ret, roi, collector, installer>>

-----------------------------------------------------------------------------
(* Float arithmetic *)

AbsInt(i) == IF i < 0 THEN -i ELSE i

RECURSIVE Gcd(_, _)
Gcd(a, b) == IF b = 0 THEN a ELSE Gcd(b, a % b)

\* floor division for a positive divisor
FloorDiv(n, d) == IF n >= 0 THEN n \div d ELSE -((-n + d - 1) \div d)

F(num, den) ==
    LET s == IF den < 0 THEN -1 ELSE 1
        g == Gcd(AbsInt(num), AbsInt(den))
    IN [k |-> "fin", n |-> (s * num) \div g, d |-> (s * den) \div g]

I(i) == [k |-> "fin", n |-> i, d |-> 1]
NaN == [k |-> "nan", n |-> 0, d |-> 1]
PosInf == [k |-> "inf", n |-> 1, d |-> 1]
NegInf == [k |-> "inf", n |-> -1, d |-> 1]
NotANumber == [k |-> "str", n |-> 0, d |-> 1]
ZeroDiv == [k |-> "zde", n |-> 0, d |-> 1]

IsFin(a) == a.k = "fin"
IsNaN(a) == a.k = "nan"
IsInf(a) == a.k = "inf"
\* a value on which Python raises (ValueError of float(), ZeroDivisionError)
IsErr(a) == a.k \in {"str", "zde"}
\* math.isfinite
IsFinite(a) == a.k = "fin"

Sign(a) == IF a.n > 0 THEN 1 ELSE IF a.n < 0 THEN -1 ELSE 0

\* a < b on floats: False as soon as one side is NaN
FLt(a, b) ==
    IF ~(a.k \in {"fin", "inf"}) \/ ~(b.k \in {"fin", "inf"}) THEN FALSE
    ELSE IF IsInf(a) THEN a.n < 0 /\ ~(IsInf(b) /\ b.n < 0)
    ELSE IF IsInf(b) THEN b.n > 0
    ELSE LET ia == FloorDiv(a.n, a.d)
             ib == FloorDiv(b.n, b.d)
         IN IF ia # ib THEN ia < ib
            ELSE (a.n - ia * a.d) * b.d < (b.n - ib * b.d) * a.d

FEq(a, b) == a.k \in {"fin", "inf"} /\ b.k \in {"fin", "inf"} /\ a = b
FGt(a, b) == FLt(b, a)
FLe(a, b) == FLt(a, b) \/ FEq(a, b)
FGe(a, b) == FLe(b, a)

FNeg(a) ==
    IF IsFin(a) \/ IsInf(a) THEN [a EXCEPT !.n = -a.n] ELSE a

FAbs(a) ==
    IF IsFin(a) \/ IsInf(a) THEN [a EXCEPT !.n = AbsInt(a.n)] ELSE a

FAdd(a, b) ==
    IF IsErr(a) THEN a ELSE IF IsErr(b) THEN b
    ELSE IF IsNaN(a) \/ IsNaN(b) THEN NaN
    ELSE IF IsInf(a) THEN (IF IsInf(b) /\ b.n # a.n THEN NaN ELSE a)
    ELSE IF IsInf(b) THEN b
    ELSE LET g == Gcd(a.d, b.d)
         IN F(a.n * (b.d \div g) + b.n * (a.d \div g), (a.d \div g) * b.d)

FSub(a, b) == FAdd(a, FNeg(b))

FMul(a, b) ==
    IF IsErr(a) THEN a ELSE IF IsErr(b) THEN b
    ELSE IF IsNaN(a) \/ IsNaN(b) THEN NaN
    ELSE IF IsInf(a) \/ IsInf(b)
         THEN (IF Sign(a) * Sign(b) = 0 THEN NaN
               ELSE IF Sign(a) * Sign(b) > 0 THEN PosInf ELSE NegInf)
    ELSE LET g1 == Gcd(AbsInt(a.n), b.d)
             g2 == Gcd(AbsInt(b.n), a.d)
         IN F((a.n \div g1) * (b.n \div g2), (a.d \div g2) * (b.d \div g1))

\* Python float division: a zero divisor raises ZeroDivisionError
FDiv(a, b) ==
    IF IsErr(a) THEN a ELSE IF IsErr(b) THEN b
    ELSE IF IsFin(b) /\ b.n = 0 THEN ZeroDiv
    ELSE IF IsNaN(a) \/ IsNaN(b) THEN NaN
    ELSE IF IsInf(b) THEN (IF IsInf(a) THEN NaN ELSE I(0))
    ELSE FMul(a, F(b.d, b.n))

\* Python's max(a, b) and min(a, b): the first argument is kept unless the
\* second compares strictly greater (smaller), so a NaN second argument loses
PyMax(a, b) ==
    IF IsErr(a) THEN a ELSE IF IsErr(b) THEN b
    ELSE IF FGt(b, a) THEN b ELSE a

PyMin(a, b) ==
    IF IsErr(a) THEN a ELSE IF IsErr(b) THEN b
    ELSE IF FLt(b, a) THEN b ELSE a

\* round(x, 2): to the nearest hundredth, ties to even.  The two decimals are
\* taken one at a time to keep the intermediate products small.
Round2(a) ==
    IF ~IsFin(a) THEN a
    ELSE LET q0 == FloorDiv(a.n, a.d)
             r0 == a.n - q0 * a.d
             t1 == (r0 * 10) \div a.d
             r1 == r0 * 10 - t1 * a.d
             t2 == (r1 * 10) \div a.d
             r2 == r1 * 10 - t2 * a.d
             q == q0 * 100 + t1 * 10 + t2
             up == 2 * r2 > a.d \/ (2 * r2 = a.d /\ q % 2 = 1)
         IN F(IF up THEN q + 1 ELSE q, 100)

\* round(x, 1)
Round1(a) ==
    IF ~IsFin(a) THEN a
    ELSE LET q0 == FloorDiv(a.n, a.d)
             r0 == a.n - q0 * a.d
             t1 == (r0 * 10) \div a.d
             r1 == r0 * 10 - t1 * a.d
             q == q0 * 10 + t1
             up == 2 * r1 > a.d \/ (2 * r1 = a.d /\ q % 2 = 1)
         IN F(IF up THEN q + 1 ELSE q, 10)

\* division of numpy floats: a zero divisor gives inf or nan (and a
\* RuntimeWarning), not an exception
NpDiv(a, b) ==
    IF IsFin(b) /\ b.n = 0 /\ ~IsErr(a)
    THEN (IF IsNaN(a) \/ Sign(a) = 0 THEN NaN
          ELSE IF Sign(a) > 0 THEN PosInf ELSE NegInf)
    ELSE FDiv(a, b)

-----------------------------------------------------------------------------
(* port_dashboard.calculate_roi *)

DegenerateEstimate ==
    [annual_savings |-> I(0),
     total_savings_3_years |-> I(0),
     roi_percentage |-> NaN,
     payback_years |-> PosInf,
     productivity_improvement_pct |-> NaN,
     cost_reduction_per_teu |-> I(0)]

\* mutant: a zero investment passes the guard
InvalidRoiInputs_ZeroInvestmentPasses(current_teu, current_productivity, target_productivity, investment) ==
    \/ FLt(investment, I(0))
    \/ FLe(current_teu, I(0))
    \/ FLt(current_productivity, I(0))
    \/ FLe(target_productivity, I(0))

\* the guard of line 193
InvalidRoiInputs(current_teu, current_productivity, target_productivity, investment) ==
    \/ FLe(investment, I(0))
    \/ FLe(current_teu, I(0))
    \/ FLt(current_productivity, I(0))
    \/ FLe(target_productivity, I(0))

TimeReductionFactor(productivity_improvement, target_productivity) ==
    LET denom == PyMax(target_productivity, F(1, 1000000000))
    IN PyMin(PyMax(FDiv(productivity_improvement, denom), I(0)), I(1))

CostReductionPerTeu(cost_per_teu, time_reduction_factor) ==
    PyMax(I(0), FMul(FMul(cost_per_teu, time_reduction_factor), F(6, 10)))

AnnualSavings(current_teu, cost_reduction_per_teu) ==
    PyMax(I(0), FMul(current_teu, cost_reduction_per_teu))

\* mutant: the savings of one year only
TotalSavings3Years_OneYear(annual_savings) == annual_savings

\* ROI a 3 años: no discounting
TotalSavings3Years(annual_savings) == FMul(annual_savings, I(3))

\* mutant: the savings are not netted against the investment
RoiPercentage_Gross(total_savings_3_years, investment) ==
    IF FGt(investment, I(0))
    THEN FMul(FDiv(total_savings_3_years, investment), I(100))
    ELSE NaN

RoiPercentage(total_savings_3_years, investment) ==
    IF FGt(investment, I(0))
    THEN FMul(FDiv(FSub(total_savings_3_years, investment), investment), I(100))
    ELSE NaN

\* mutant: the savings divided by the investment
PaybackYears_Inverted(investment, annual_savings) ==
    IF FGt(annual_savings, I(0)) THEN FDiv(annual_savings, investment) ELSE PosInf

PaybackYears(investment, annual_savings) ==
    IF FGt(annual_savings, I(0)) THEN FDiv(investment, annual_savings) ELSE PosInf

ProductivityPercentage(productivity_improvement, current_productivity) ==
    IF FGt(current_productivity, I(0))
    THEN FMul(FDiv(productivity_improvement, current_productivity), I(100))
    ELSE NaN

\* an exception leaving the try block: every field carries the error value
Raised(e) ==
    [annual_savings |-> e, total_savings_3_years |-> e, roi_percentage |-> e,
     payback_years |-> e, productivity_improvement_pct |-> e,
     cost_reduction_per_teu |-> e]

\* the try block (lines 187-230): its return value, or the exception raised
RoiTryBlock(current_teu, current_productivity, target_productivity, investment, cost_per_teu) ==
    IF \E a \in {current_teu, current_productivity, target_productivity,
                 investment, cost_per_teu} : IsErr(a)
    THEN Raised(NotANumber)          \* float() raised
    ELSE IF InvalidRoiInputs(current_teu, current_productivity,
                             target_productivity, investment)
    THEN DegenerateEstimate
    ELSE
      LET productivity_improvement ==
              PyMax(I(0), FSub(target_productivity, current_productivity))
          productivity_percentage ==
              ProductivityPercentage(productivity_improvement, current_productivity)
          time_reduction_factor ==
              TimeReductionFactor(productivity_improvement, target_productivity)
          cost_reduction_per_teu ==
              CostReductionPerTeu(cost_per_teu, time_reduction_factor)
          annual_savings == AnnualSavings(current_teu, cost_reduction_per_teu)
          total_savings_3_years == TotalSavings3Years(annual_savings)
          roi_percentage == RoiPercentage(total_savings_3_years, investment)
          payback_years == PaybackYears(investment, annual_savings)
          res == [annual_savings |-> annual_savings,
                  total_savings_3_years |-> total_savings_3_years,
                  roi_percentage |-> roi_percentage,
                  payback_years |-> payback_years,
                  productivity_improvement_pct |-> productivity_percentage,
                  cost_reduction_per_teu |-> cost_reduction_per_teu]
      IN IF \E f \in DOMAIN res : IsErr(res[f])
         THEN Raised(ZeroDiv)        \* an arithmetic exception
         ELSE res

\* mutant: the exception is not caught
ExceptException_Propagates(r) == r

\* except Exception (lines 231-239)
ExceptException(r) ==
    IF \E f \in DOMAIN r : IsErr(r[f]) THEN DegenerateEstimate ELSE r

calculate_roi(current_teu, current_productivity, target_productivity, investment, cost_per_teu) ==
    ExceptException(RoiTryBlock(current_teu, current_productivity,
                                target_productivity, investment, cost_per_teu))

\* lines 241-250: the tier the dashboard's priority panel shows, with its CSS
\* class; every comparison with NaN is False
classify_gap(gap_percentage) ==
    IF FGe(gap_percentage, I(60))
    THEN [priority |-> "CRÍTICO", css_class |-> "gap-critical"]
    ELSE IF FGe(gap_percentage, I(40))
    THEN [priority |-> "ALTO", css_class |-> "gap-high"]
    ELSE IF FGe(gap_percentage, I(20))
    THEN [priority |-> "MEDIO", css_class |-> "gap-medium"]
    ELSE [priority |-> "BAJO", css_class |-> "gap-low"]

\* Formatting helpers of the dashboard (lines 86-112).  A rendered value is the
\* marker "N/D" or the number that the format specification prints: the value
\* rounded to the digits asked for, with its unit.
NotAvailable == [text |-> "N/D", number |-> NaN, unit |-> ""]

Formatted(v, unit) == [text |-> "number", number |-> v, unit |-> unit]

\* f"{v:.0f}": to the nearest integer, ties to even
Round0(a) ==
    IF ~IsFin(a) THEN a
    ELSE LET q == FloorDiv(a.n, a.d)
             r == a.n - q * a.d
             up == 2 * r > a.d \/ (2 * r = a.d /\ q % 2 = 1)
         IN I(IF up THEN q + 1 ELSE q)

\* f"{v:.{digits}f}" for the digits the dashboard passes (0 or 1)
FixedPoint(v, digits) == IF digits = 0 THEN Round0(v) ELSE Round1(v)

\* mutant: only NaN is tested, an infinity is formatted
safe_pct_NanOnly(value, digits) ==
    IF IsErr(value) THEN NotAvailable
    ELSE IF IsNaN(value) THEN NotAvailable
    ELSE Formatted(FixedPoint(value, digits), "%")

\* lines 86-94: float(value) raising lands in except Exception
safe_pct(value, digits) ==
    IF IsErr(value) THEN NotAvailable
    ELSE IF ~IsFin(value) THEN NotAvailable
    ELSE Formatted(FixedPoint(value, digits), "%")

\* lines 96-103; both branches of line 101 print digits decimals
safe_money(value, digits) ==
    IF IsErr(value) THEN NotAvailable
    ELSE IF ~IsFin(value) THEN NotAvailable
    ELSE Formatted(FixedPoint(value, digits), "$")

\* lines 105-112
safe_years(value, digits) ==
    IF IsErr(value) THEN NotAvailable
    ELSE IF ~IsFin(value) \/ FGt(value, I(1000000)) THEN NotAvailable
    ELSE Formatted(FixedPoint(value, digits), "años")

\* line 426: the colour of the ROI card
RoiCardIsPositive(roi_val) == IsFin(roi_val) /\ FGe(roi_val, I(0))

\* lines 465-473: what the ROI column shows of roi_results; the productivity
\* metric prints a "+" before the text of safe_pct
RenderRoiResults(roi_results) ==
    [roi_percentage |-> safe_pct(roi_results.roi_percentage, 1),
     card_is_positive |-> RoiCardIsPositive(roi_results.roi_percentage),
     annual_savings |-> safe_money(roi_results.annual_savings, 0),
     payback_years |-> safe_years(roi_results.payback_years, 1),
     productivity_improvement_pct |->
         safe_pct(roi_results.productivity_improvement_pct, 1)]

\* one run of lines 457-473: the estimate and what is shown of it
RoiRun(args, roi_results, divisions) ==
    [called |-> TRUE, args |-> args, result |-> roi_results,
     divisions |-> divisions, rendered |-> RenderRoiResults(roi_results)]

\* the divisions one call of calculate_roi evaluates, in the order of the code
\* (lines 206, 210, 218, 221), each with the value of its denominator; none
\* when float() raises or the guard of line 193 returns early
RoiDivisions(current_teu, current_productivity, target_productivity, investment, cost_per_teu) ==
    IF \E a \in {current_teu, current_productivity, target_productivity,
                 investment, cost_per_teu} : IsErr(a)
    THEN <<>>
    ELSE IF InvalidRoiInputs(current_teu, current_productivity,
                             target_productivity, investment)
    THEN <<>>
    ELSE
      LET productivity_improvement ==
              PyMax(I(0), FSub(target_productivity, current_productivity))
          denom == PyMax(target_productivity, F(1, 1000000000))
          annual_savings ==
              AnnualSavings(current_teu,
                  CostReductionPerTeu(cost_per_teu,
                      TimeReductionFactor(productivity_improvement,
                                          target_productivity)))
      IN (IF FGt(current_productivity, I(0))
          THEN <<[site |-> "productivity_percentage", den |-> current_productivity]>>
          ELSE <<>>)
         \o <<[site |-> "time_reduction_factor", den |-> denom]>>
         \o (IF FGt(investment, I(0))
             THEN <<[site |-> "roi_percentage", den |-> investment]>>
             ELSE <<>>)
         \o (IF FGt(annual_savings, I(0))
             THEN <<[site |-> "payback_years", den |-> annual_savings]>>
             ELSE <<>>)

-----------------------------------------------------------------------------
(* analytics_module.PortAnalytics *)

key_metrics ==
    <<"CPPI_Score", "Berth_Productivity_Moves_Hour", "Automation_Level",
      "Rail_Connectivity_Percent", "Digital_Systems_Score", "TEU_Annual_2023">>

KeyMetricSet == {key_metrics[i] : i \in DOMAIN key_metrics}

\* the keys of metric_weights, in the dict's order
WeightedMetrics ==
    <<"CPPI_Score", "Berth_Productivity_Moves_Hour", "Automation_Level",
      "Rail_Connectivity_Percent", "Digital_Systems_Score">>

metric_weights(metric) ==
    CASE metric = "CPPI_Score" -> F(25, 100)
      [] metric = "Berth_Productivity_Moves_Hour" -> F(20, 100)
      [] metric = "Automation_Level" -> F(20, 100)
      [] metric = "Rail_Connectivity_Percent" -> F(15, 100)
      [] metric = "Digital_Systems_Score" -> F(20, 100)

\* a column of one group's table: the values of `metric`, row by row
Column(rows, metric) == [i \in DOMAIN rows |-> rows[i].vals[metric]]

RECURSIVE SumSeq(_)
SumSeq(s) == IF s = <<>> THEN I(0) ELSE FAdd(Head(s), SumSeq(Tail(s)))

RECURSIVE MaxSeq(_)
MaxSeq(s) ==
    IF Len(s) = 1 THEN Head(s)
    ELSE LET m == MaxSeq(Tail(s)) IN IF FGt(Head(s), m) THEN Head(s) ELSE m

\* pandas skips missing values (skipna)
DropNa(s) == SelectSeq(s, LAMBDA v : ~IsNaN(v))

\* Series.mean(): NaN for a column without any value
SeriesMean(s) ==
    LET present == DropNa(s)
    IN IF present = <<>> THEN NaN ELSE FDiv(SumSeq(present), I(Len(present)))

\* Series.max(): NaN for a column without any value
SeriesMax(s) ==
    LET present == DropNa(s)
    IN IF present = <<>> THEN NaN ELSE MaxSeq(present)

\* mutant: the gap as a fraction of the average, not a percentage
GapPercentage_Fraction(gap_avg, top_avg) ==
    IF FGt(top_avg, I(0)) THEN FDiv(gap_avg, top_avg) ELSE I(0)

\* mutant: the division is not guarded
GapPercentage_Unguarded(gap_avg, top_avg) ==
    FMul(FDiv(gap_avg, top_avg), I(100))

\* line 60
GapPercentage(gap_avg, top_avg) ==
    IF FGt(top_avg, I(0)) THEN FMul(FDiv(gap_avg, top_avg), I(100)) ELSE I(0)

\* the metrics for which the gap columns are emitted (line 53)
GapColumns(d) ==
    IF d.chile = <<>> THEN {} ELSE {m \in KeyMetricSet : m \in d.columns}

\* one port's port_gaps (lines 49-64); a metric without gap columns reads NaN
PortGaps(d, chilean_port) ==
    LET cols == GapColumns(d)
        top_avg == [m \in cols |-> SeriesMean(Column(d.top, m))]
        top_best == [m \in cols |-> SeriesMax(Column(d.top, m))]
        gap_avg == [m \in cols |-> FSub(top_avg[m], chilean_port.vals[m])]
        gap_best == [m \in cols |-> FSub(top_best[m], chilean_port.vals[m])]
    IN [Puerto |-> chilean_port.Puerto,
        Gap_Average |->
            [m \in KeyMetricSet |-> IF m \in cols THEN gap_avg[m] ELSE NaN],
        Gap_Best |->
            [m \in KeyMetricSet |-> IF m \in cols THEN gap_best[m] ELSE NaN],
        Gap_Percentage |->
            [m \in KeyMetricSet |->
                IF m \in cols THEN GapPercentage(gap_avg[m], top_avg[m]) ELSE NaN]]

\* lines 79-91, for one row of gaps_df
CompositeScore(columns, row) ==
    LET used == SelectSeq(WeightedMetrics, LAMBDA m : m \in columns)
        weighted_gap ==
            SumSeq([i \in DOMAIN used |->
                      FMul(FAbs(row.Gap_Percentage[used[i]]), metric_weights(used[i]))])
        total_weight == SumSeq([i \in DOMAIN used |-> metric_weights(used[i])])
        composite_score ==
            IF FGt(total_weight, I(0)) THEN FDiv(weighted_gap, total_weight) ELSE I(0)
    IN Round2(composite_score)

_calculate_composite_gap_score(columns, rows) ==
    [i \in DOMAIN rows |-> CompositeScore(columns, rows[i])]

\* line 71: the column Overall_Gap_Score is added to the frame
WithOverallGapScore(columns, gaps_data, scores) ==
    [columns |-> columns,
     rows |-> [i \in DOMAIN gaps_data |->
                 [Puerto |-> gaps_data[i].Puerto,
                  Gap_Average |-> gaps_data[i].Gap_Average,
                  Gap_Best |-> gaps_data[i].Gap_Best,
                  Gap_Percentage |-> gaps_data[i].Gap_Percentage,
                  Overall_Gap_Score |-> scores[i]]]]

\* lines 68-71, from the rows gaps_data
GapsFrame(columns, gaps_data) ==
    WithOverallGapScore(columns, gaps_data,
                        _calculate_composite_gap_score(columns, gaps_data))

\* gaps_df: its gap columns and its rows, each with Overall_Gap_Score
calculate_performance_gaps(d) ==
    GapsFrame(GapColumns(d), [i \in DOMAIN d.chile |-> PortGaps(d, d.chile[i])])

\* the divisions calculate_performance_gaps evaluates (lines 60 and 90), each
\* with the value of its denominator
GapDivisions(d) ==
    LET cols == GapColumns(d)
        used == SelectSeq(WeightedMetrics, LAMBDA m : m \in cols)
        total_weight == SumSeq([i \in DOMAIN used |-> metric_weights(used[i])])
    IN {[site |-> "gap_percentage", den |-> SeriesMean(Column(d.top, m))] :
            m \in {c \in cols : FGt(SeriesMean(Column(d.top, c)), I(0))}}
       \cup (IF d.chile # <<>> /\ FGt(total_weight, I(0))
             THEN {[site |-> "composite_score", den |-> total_weight]}
             ELSE {})

\* mutant: the thresholds 60 / 40 / 20 of the dashboard's classify_gap
_get_priority_level_DashboardThresholds(gap_percentage) ==
    IF FGe(gap_percentage, I(60)) THEN "CRÍTICA"
    ELSE IF FGe(gap_percentage, I(40)) THEN "ALTA"
    ELSE IF FGe(gap_percentage, I(20)) THEN "MEDIA"
    ELSE "BAJA"

_get_priority_level(gap_percentage) ==
    IF FGe(gap_percentage, I(50)) THEN "CRÍTICA"
    ELSE IF FGe(gap_percentage, I(30)) THEN "ALTA"
    ELSE IF FGe(gap_percentage, I(20)) THEN "MEDIA"
    ELSE "BAJA"

ImpactFactor(metric) ==
    CASE metric = "CPPI_Score" -> F(10, 10)
      [] metric = "Berth_Productivity_Moves_Hour" -> F(9, 10)
      [] metric = "Automation_Level" -> F(8, 10)
      [] metric = "Digital_Systems_Score" -> F(7, 10)
      [] metric = "Rail_Connectivity_Percent" -> F(6, 10)
      [] OTHER -> F(5, 10)

\* mutant: the gap factor is not capped at 1.0
_estimate_impact_potential_Uncapped(metric, gap_percentage) ==
    FMul(ImpactFactor(metric), FAdd(I(1), FDiv(gap_percentage, I(100))))

_estimate_impact_potential(metric, gap_percentage) ==
    LET base_impact == ImpactFactor(metric)
        gap_factor == PyMin(FDiv(gap_percentage, I(100)), I(1))
    IN FMul(base_impact, FAdd(I(1), gap_factor))

\* mutant: an unlisted metric has difficulty 0
_estimate_implementation_difficulty_ZeroFallback(metric) ==
    CASE metric = "Digital_Systems_Score" -> F(3, 10)
      [] metric = "Berth_Productivity_Moves_Hour" -> F(5, 10)
      [] metric = "Automation_Level" -> F(7, 10)
      [] metric = "CPPI_Score" -> F(8, 10)
      [] metric = "Rail_Connectivity_Percent" -> F(10, 10)
      [] OTHER -> I(0)

_estimate_implementation_difficulty(metric) ==
    CASE metric = "Digital_Systems_Score" -> F(3, 10)
      [] metric = "Berth_Productivity_Moves_Hour" -> F(5, 10)
      [] metric = "Automation_Level" -> F(7, 10)
      [] metric = "CPPI_Score" -> F(8, 10)
      [] metric = "Rail_Connectivity_Percent" -> F(10, 10)
      [] OTHER -> F(6, 10)

_get_metric_display_name(metric) ==
    CASE metric = "CPPI_Score" -> "Eficiencia General (CPPI)"
      [] metric = "Berth_Productivity_Moves_Hour" -> "Productividad de Muelle"
      [] metric = "Automation_Level" -> "Nivel de Automatización"
      [] metric = "Digital_Systems_Score" -> "Sistemas Digitales"
      [] metric = "Rail_Connectivity_Percent" -> "Conectividad Ferroviaria"
      [] metric = "TEU_Annual_2023" -> "Capacidad Anual (TEU)"
      [] OTHER -> metric

\* mutant: a gap of exactly 20 counts as significant
IsSignificantGap_Inclusive(gap_percentage) == FGe(gap_percentage, I(20))

\* line 114: the significance filter
IsSignificantGap(gap_percentage) == FGt(gap_percentage, I(20))

\* lines 115-127
PriorityItem(metric, gap_percentage) ==
    LET impact_potential == _estimate_impact_potential(metric, gap_percentage)
        implementation_difficulty == _estimate_implementation_difficulty(metric)
    IN [metric |-> metric,
        metric_name |-> _get_metric_display_name(metric),
        gap_percentage |-> gap_percentage,
        priority_level |-> _get_priority_level(gap_percentage),
        impact_potential |-> impact_potential,
        implementation_difficulty |-> implementation_difficulty,
        roi_score |-> FDiv(impact_potential, implementation_difficulty)]

\* lines 109-127: the candidate items of one row, in key_metrics order
PortCandidates(columns, row) ==
    LET kept == SelectSeq(key_metrics,
                          LAMBDA m : m \in columns
                                     /\ IsSignificantGap(row.Gap_Percentage[m]))
    IN [i \in DOMAIN kept |-> PriorityItem(kept[i], row.Gap_Percentage[kept[i]])]

\* mutant: x goes before the items of equal roi_score
RECURSIVE InsertByRoi_BeforeEquals(_, _)
InsertByRoi_BeforeEquals(sorted, x) ==
    IF sorted = <<>> THEN <<x>>
    ELSE IF FLe(Head(sorted).roi_score, x.roi_score) THEN <<x>> \o sorted
    ELSE <<Head(sorted)>> \o InsertByRoi_BeforeEquals(Tail(sorted), x)

\* list.sort(key=roi_score, reverse=True) is stable: x goes behind every item
\* whose roi_score is not smaller
RECURSIVE InsertByRoi(_, _)
InsertByRoi(sorted, x) ==
    IF sorted = <<>> THEN <<x>>
    ELSE IF FLt(Head(sorted).roi_score, x.roi_score) THEN <<x>> \o sorted
    ELSE <<Head(sorted)>> \o InsertByRoi(Tail(sorted), x)

RECURSIVE SortByRoiFrom(_, _)
SortByRoiFrom(sorted, rest) ==
    IF rest = <<>> THEN sorted
    ELSE SortByRoiFrom(InsertByRoi(sorted, Head(rest)), Tail(rest))

\* mutant: the list is left in key_metrics order
SortByRoi_Unsorted(items) == items

SortByRoi(items) == SortByRoiFrom(<<>>, items)

\* mutant: the last five are kept
TopFive_LastFive(items) ==
    SubSeq(items, IF Len(items) < 5 THEN 1 ELSE Len(items) - 4, Len(items))

\* port_priorities[:5]
TopFive(items) == SubSeq(items, 1, IF Len(items) < 5 THEN Len(items) ELSE 5)

\* the divisions identify_improvement_priorities evaluates: the ones of
\* calculate_performance_gaps, and lines 315 and 126 for every candidate item
CandidateDivisions(candidates) ==
    UNION {{[site |-> "roi_score",
             den |-> candidates[i][j].implementation_difficulty] :
                j \in DOMAIN candidates[i]} : i \in DOMAIN candidates}
    \cup (IF \E i \in DOMAIN candidates : candidates[i] # <<>>
          THEN {[site |-> "gap_factor", den |-> I(100)]}
          ELSE {})

\* the candidate items of every row of gaps_df, before the sort and the cut
AllCandidates(gaps_df) ==
    [i \in DOMAIN gaps_df.rows |->
        PortCandidates(gaps_df.columns, gaps_df.rows[i])]

PriorityDivisions(d) ==
    GapDivisions(d)
    \cup CandidateDivisions(AllCandidates(calculate_performance_gaps(d)))

\* priorities, as the dict's (port name, list) entries in insertion order
\* lines 103-131, on the frame that line 101 computed
PrioritiesOf(gaps_df) ==
    [i \in DOMAIN gaps_df.rows |->
       [Puerto |-> gaps_df.rows[i].Puerto,
        items |-> TopFive(SortByRoi(PortCandidates(gaps_df.columns,
                                                   gaps_df.rows[i])))]]

identify_improvement_priorities(d) ==
    PrioritiesOf(calculate_performance_gaps(d))

\* Series.idxmax(): the first position of the greatest value, missing values
\* skipped; 0 stands for the failure on a series without any value (idxmax
\* raises ValueError, or returns NaN and .loc raises KeyError)
IdxMax(s) ==
    LET present == {i \in DOMAIN s : ~IsNaN(s[i])}
    IN IF present = {} THEN 0
       ELSE CHOOSE i \in present :
               \A j \in present :
                   /\ FGe(s[i], s[j])
                   /\ (s[j] = s[i]) => (i <= j)

\* the phases of the roadmap table (lines 180-279), or the fallback roadmap
\* of lines 281-288
_get_implementation_roadmap(metric) ==
    CASE metric = "Automation_Level" ->
            <<"Fase 1: Automatización Básica (6-12 meses)",
              "Fase 2: Automatización Intermedia (12-18 meses)",
              "Fase 3: Automatización Avanzada (18-36 meses)">>
      [] metric = "Digital_Systems_Score" ->
            <<"Fase 1: Digitalización Básica (3-6 meses)",
              "Fase 2: Integración Avanzada (6-12 meses)">>
      [] metric = "Rail_Connectivity_Percent" ->
            <<"Fase 1: Conectividad Básica (12-24 meses)",
              "Fase 2: Optimización Ferroviaria (24-36 meses)">>
      [] metric = "Berth_Productivity_Moves_Hour" ->
            <<"Fase 1: Mejora Operacional (3-6 meses)",
              "Fase 2: Modernización de Equipos (6-18 meses)">>
      [] OTHER -> <<"Análisis Específico Requerido">>

\* lines 148-170 for one port and one metric: the recommendation, or <<>> when
\* the best reference value is not more than 1.2 times the port's value (a
\* comparison with a missing value is False)
MetricRecommendation(d, chilean_port, metric, best) ==
    IF FGt(d.top[best].vals[metric], FMul(chilean_port.vals[metric], F(6, 5)))
    THEN <<[metric |-> metric,
            reference_port |-> d.top[best].Puerto,
            current_value |-> chilean_port.vals[metric],
            target_value |-> d.top[best].vals[metric],
            improvement_potential |->
                FSub(d.top[best].vals[metric], chilean_port.vals[metric]),
            roadmap |-> _get_implementation_roadmap(metric)]>>
    ELSE <<>>

RECURSIVE PortRecommendations(_, _, _)
PortRecommendations(d, chilean_port, k) ==
    IF k > Len(key_metrics) THEN <<>>
    ELSE IF key_metrics[k] \notin d.columns
    THEN PortRecommendations(d, chilean_port, k + 1)
    ELSE MetricRecommendation(d, chilean_port, key_metrics[k],
                              IdxMax(Column(d.top, key_metrics[k])))
         \o PortRecommendations(d, chilean_port, k + 1)

\* lines 135-173; the first port's first key metric whose reference column
\* has no value makes idxmax fail at line 151
generate_benchmarking_recommendations(d) ==
    IF /\ d.chile # <<>>
       /\ \E m \in d.columns : IdxMax(Column(d.top, m)) = 0
    THEN [raised |-> "idxmax of a reference column (line 151)",
          recommendations |-> <<>>]
    ELSE [raised |-> "none",
          recommendations |->
              [i \in DOMAIN d.chile |->
                  [Puerto |-> d.chile[i].Puerto,
                   recommendations |-> PortRecommendations(d, d.chile[i], 1)]]]

\* line 356, on the numpy floats that mean() returns
OverallGap(avg_cppi_top, avg_cppi_chile) ==
    FMul(NpDiv(FSub(avg_cppi_top, avg_cppi_chile), avg_cppi_top), I(100))

\* mutant: the thresholds belong to the higher class
GapClassification_Inclusive(overall_gap) ==
    IF FGe(overall_gap, I(40)) THEN "CRÍTICO"
    ELSE IF FGe(overall_gap, I(25)) THEN "SIGNIFICATIVO"
    ELSE "MODERADO"

\* line 375
GapClassification(overall_gap) ==
    IF FGt(overall_gap, I(40)) THEN "CRÍTICO"
    ELSE IF FGt(overall_gap, I(25)) THEN "SIGNIFICATIVO"
    ELSE "MODERADO"

\* line 385
ImprovementPotential(gap_score) ==
    IF FGt(gap_score, I(40)) THEN "ALTO" ELSE "MEDIO"

\* a sequence back to front
Reverse(s) == [i \in 1..Len(s) |-> s[Len(s) + 1 - i]]

\* the comparison list.sort makes on the keys criticality_score
CriticalityLt(x, y) == FLt(x.criticality_score, y.criticality_score)

\* list.sort of CPython on a short list (listobject.c): the leading run is
\* found (count_run), a strictly descending one is reversed, and the other
\* items are put in place by binary insertion.  RunEnd is the first position
\* behind the run that starts at a[1].
RECURSIVE RunEnd(_, _, _)
RunEnd(a, i, descending) ==
    IF i > Len(a) THEN i
    ELSE IF descending = CriticalityLt(a[i], a[i - 1])
         THEN RunEnd(a, i + 1, descending)
         ELSE i

\* the position (counted from 0) at which binary insertion puts pivot into
\* the sorted prefix a[l+1 .. r]
RECURSIVE BinarySearch(_, _, _, _)
BinarySearch(a, pivot, l, r) ==
    IF l >= r THEN l
    ELSE IF CriticalityLt(pivot, a[l + ((r - l) \div 2) + 1])
         THEN BinarySearch(a, pivot, l, l + ((r - l) \div 2))
         ELSE BinarySearch(a, pivot, l + ((r - l) \div 2) + 1, r)

InsertAt(a, start, l) ==
    SubSeq(a, 1, l) \o <<a[start + 1]>> \o SubSeq(a, l + 1, start)
        \o SubSeq(a, start + 2, Len(a))

RECURSIVE BinarySort(_, _)
BinarySort(a, start) ==
    IF start >= Len(a) THEN a
    ELSE BinarySort(InsertAt(a, start, BinarySearch(a, a[start + 1], 0, start)),
                    start + 1)

RunReversed(a, end) == Reverse(SubSeq(a, 1, end - 1)) \o SubSeq(a, end, Len(a))

AscendingSort(a) ==
    IF Len(a) < 2 THEN a
    ELSE IF CriticalityLt(a[2], a[1])
         THEN BinarySort(RunReversed(a, RunEnd(a, 3, TRUE)),
                         RunEnd(a, 3, TRUE) - 1)
         ELSE BinarySort(a, RunEnd(a, 3, FALSE) - 1)

\* mutant: the list is left in key_metrics order
SortByCriticality_Unsorted(metric_criticality) == metric_criticality

\* line 415: sort(key=criticality_score, reverse=True) reverses the list,
\* sorts it ascending and reverses it again
SortByCriticality(metric_criticality) ==
    Reverse(AscendingSort(Reverse(metric_criticality)))

\* lines 404-412, for one metric with a gap column
MetricCriticality(metric, gap_column) ==
    [metric |-> _get_metric_display_name(metric),
     average_gap |-> Round1(SeriesMean(gap_column)),
     ports_critically_affected |->
        Cardinality({i \in DOMAIN gap_column : FGt(gap_column[i], I(30))}),
     criticality_score |->
        FMul(SeriesMean(gap_column),
             F(Cardinality({i \in DOMAIN gap_column : FGt(gap_column[i], I(30))}),
               Len(gap_column)))]

\* the metrics with a gap column, in key_metrics order
CriticalityCandidates(gaps_df, kept) ==
    [j \in DOMAIN kept |->
        MetricCriticality(kept[j],
                          [i \in DOMAIN gaps_df.rows |->
                              gaps_df.rows[i].Gap_Percentage[kept[j]]])]

\* metric_criticality[:3]
TopThree(items) == SubSeq(items, 1, IF Len(items) < 3 THEN Len(items) ELSE 3)

\* on the frame that line 397 computes again
_identify_critical_metrics(gaps_df) ==
    TopThree(SortByCriticality(
        CriticalityCandidates(gaps_df,
            SelectSeq(key_metrics, LAMBDA m : m \in gaps_df.columns))))

NoSummary ==
    [overall_performance |->
        [chile_avg_cppi |-> NaN, top_performers_avg_cppi |-> NaN,
         overall_gap_percentage |-> NaN, gap_classification |-> ""],
     best_performer_chile |-> [name |-> "", cppi_score |-> NaN],
     highest_potential |->
        [name |-> "", gap_score |-> NaN, improvement_potential |-> ""],
     critical_areas |-> <<>>,
     total_ports_analyzed |-> 0,
     benchmarks_used |-> 0]

\* lines 369-391, from the values computed at lines 354-364
SummaryRecord(d, gaps_df, avg_cppi_chile, avg_cppi_top, overall_gap, best_chilean, worst_gap_port) ==
    [overall_performance |->
        [chile_avg_cppi |-> Round1(avg_cppi_chile),
         top_performers_avg_cppi |-> Round1(avg_cppi_top),
         overall_gap_percentage |-> Round1(overall_gap),
         gap_classification |-> GapClassification(overall_gap)],
     best_performer_chile |->
        [name |-> d.chile[best_chilean].Puerto,
         cppi_score |-> d.chile[best_chilean].vals["CPPI_Score"]],
     highest_potential |->
        [name |-> gaps_df.rows[worst_gap_port].Puerto,
         gap_score |-> gaps_df.rows[worst_gap_port].Overall_Gap_Score,
         improvement_potential |->
            ImprovementPotential(gaps_df.rows[worst_gap_port].Overall_Gap_Score)],
     critical_areas |-> _identify_critical_metrics(gaps_df),
     total_ports_analyzed |-> Len(d.chile),
     benchmarks_used |-> Len(d.top)]

\* the outcome of lines 359-393: the exception raised ("none" when the call
\* returns), the summary returned, and the frame of line 349
SummaryOutcome(d, gaps_df, avg_cppi_chile, avg_cppi_top, best_chilean, worst_gap_port) ==
    IF best_chilean = 0
    THEN [raised |-> "idxmax of CPPI_Score (line 360)", summary |-> NoSummary,
          gaps_df |-> gaps_df]
    ELSE IF worst_gap_port = 0
    THEN [raised |-> "idxmax of Overall_Gap_Score (line 364)",
          summary |-> NoSummary, gaps_df |-> gaps_df]
    ELSE [raised |-> "none",
          gaps_df |-> gaps_df,
          summary |-> SummaryRecord(d, gaps_df, avg_cppi_chile, avg_cppi_top,
                                    OverallGap(avg_cppi_top, avg_cppi_chile),
                                    best_chilean, worst_gap_port)]

\* lines 354-364 on the frame that line 349 computed
SummaryOf(d, gaps_df) ==
    SummaryOutcome(d, gaps_df,
                   SeriesMean(Column(d.chile, "CPPI_Score")),
                   SeriesMean(Column(d.top, "CPPI_Score")),
                   IdxMax(Column(d.chile, "CPPI_Score")),
                   IdxMax([i \in DOMAIN gaps_df.rows |->
                             gaps_df.rows[i].Overall_Gap_Score]))

\* The priorities of line 350 are computed and not used; the fixed
\* recommendations are left out of the summary.
generate_executive_summary(d) ==
    IF "CPPI_Score" \notin d.columns
    THEN [raised |-> "KeyError: 'CPPI_Score' (line 354)", summary |-> NoSummary,
          gaps_df |-> calculate_performance_gaps(d)]
    ELSE SummaryOf(d, calculate_performance_gaps(d))

\* the division of line 356, evaluated once line 354 has found the column
SummaryDivisions(d) ==
    IF "CPPI_Score" \notin d.columns THEN {}
    ELSE {[site |-> "overall_gap",
           den |-> SeriesMean(Column(d.top, "CPPI_Score"))]}

-----------------------------------------------------------------------------
(* The input tables *)

\* at most this many cells (or columns) of a base table are changed
MaxEdits == 1

TopNames == <<"Yangshan (China)", "Singapur">>
ChileanNames == <<"Puerto Coronel", "Puerto Valparaíso">>

\* a table whose rows of one group are all alike: every Top Performer row
\* has the values top, every Chilean Port row the values chile
UniformTable(top, chile) ==
    [columns |-> KeyMetricSet,
     top |-> [i \in DOMAIN TopNames |-> [Puerto |-> TopNames[i], vals |-> top]],
     chile |-> [i \in DOMAIN ChileanNames |->
                  [Puerto |-> ChileanNames[i], vals |-> chile]]]

\* the shape of the table that DataCollector._merge_datasets builds: the
\* reference rows carry CPPI_Score_2024 and so have no CPPI_Score, the Chilean
\* rows have no Automation_Level, Rail_Connectivity_Percent, Digital_Systems_Score
ConsolidatedTable ==
    UniformTable(
        [m \in KeyMetricSet |-> IF m = "CPPI_Score" THEN NaN ELSE I(100)],
        [m \in KeyMetricSet |->
            IF m \in {"Automation_Level", "Rail_Connectivity_Percent",
                      "Digital_Systems_Score"} THEN NaN ELSE I(60)])

BaseTables ==
    {UniformTable([m \in KeyMetricSet |-> I(100)], [m \in KeyMetricSet |-> I(60)]),
     UniformTable([m \in KeyMetricSet |-> I(10000)], [m \in KeyMetricSet |-> I(10000)]),
     ConsolidatedTable}

\* a reference value goes missing, or makes the average 0, negative, or 75;
\* a port's value goes missing, to zero, to the tier boundaries (90 puts the
\* group's mean at 75), or ahead
TopEditValues == {NaN, I(-100), I(-200), I(50)}
ChileEditValues == {NaN, I(0), I(50), I(70), I(75), I(80), I(90), I(9999)}

\* group "columns" drops the metric's column; "top" / "chile" set one cell;
\* "no_top" / "no_chile" leave the group without rows; "chile_all" leaves no
\* port with a value of TEU_Annual_2023, the key metric without a weight.
\* Every operation treats the rows of the evaluated group alike and one by
\* one, so the cells of the first Chilean row are the ones changed; the other
\* row keeps the base values.
Edits ==
    [group : {"top"}, row : DOMAIN TopNames, metric : KeyMetricSet,
     val : TopEditValues]
    \cup [group : {"chile"}, row : {1}, metric : KeyMetricSet,
          val : ChileEditValues]
    \cup [group : {"columns"}, row : {1}, metric : KeyMetricSet, val : {NaN}]
    \cup [group : {"none", "no_top", "no_chile"}, row : {1},
          metric : {"CPPI_Score"}, val : {NaN}]
    \cup [group : {"chile_all"}, row : {1}, metric : {"TEU_Annual_2023"},
          val : {NaN}]

ApplyEdit(d, e) ==
    CASE e.group = "top" /\ e.row \in DOMAIN d.top ->
            [d EXCEPT !.top[e.row].vals[e.metric] = e.val]
      [] e.group = "chile" /\ e.row \in DOMAIN d.chile ->
            [d EXCEPT !.chile[e.row].vals[e.metric] = e.val]
      [] e.group = "no_top" -> [d EXCEPT !.top = <<>>]
      [] e.group = "no_chile" -> [d EXCEPT !.chile = <<>>]
      [] e.group = "chile_all" ->
            [d EXCEPT !.chile = [i \in DOMAIN d.chile |->
                                   [d.chile[i] EXCEPT !.vals[e.metric] = e.val]]]
      [] e.group = "columns" ->
            [d EXCEPT !.columns = @ \ {e.metric}]
      [] OTHER -> d

RECURSIVE ApplyEdits(_, _, _)
ApplyEdits(d, es, i) ==
    IF i > Len(es) THEN d ELSE ApplyEdits(ApplyEdit(d, es[i]), es, i + 1)

InputTables ==
    {ApplyEdits(b, es, 1) : b \in BaseTables, es \in [1..MaxEdits -> Edits]}

-----------------------------------------------------------------------------
(* State *)

NoGaps == [columns |-> {}, rows |-> <<>>]

NoReturn == [op |-> "none", gaps_df |-> NoGaps, priorities |-> <<>>,
             recommendations |-> <<>>, summary |-> NoSummary,
             raised |-> "none", divisions |-> {}, repeated |-> FALSE]

NoRoi == [called |-> FALSE,
          args |-> [current_teu |-> I(0), current_productivity |-> I(0),
                    target_productivity |-> I(0), investment |-> I(0),
                    cost_per_teu |-> I(0)],
          result |-> DegenerateEstimate,
          divisions |-> <<>>,
          rendered |-> [roi_percentage |-> NotAvailable,
                        card_is_positive |-> FALSE,
                        annual_savings |-> NotAvailable,
                        payback_years |-> NotAvailable,
                        productivity_improvement_pct |-> NotAvailable]]

\* PortDataCollector before consolidate_all_data; no request sent
NoExchange == [error |-> "none", status |-> 0, body |-> "none"]

NoTable == [table |-> "none", raised |-> "none", requested |-> FALSE,
            exchange |-> NoExchange]

NoCollection == [pc |-> "start", api_key |-> "YOUR_API_KEY_HERE",
                 chilean |-> NoTable, throughput |-> NoTable,
                 requests_sent |-> 0]

\* setup.py before main
NotInstalling == [pc |-> "main", failing |-> {}, writable |-> TRUE,
                  started |-> <<>>, returned |-> <<>>, installed |-> 0,
                  result |-> "none"]

\* PortAnalytics.__init__ on a consolidated table
Init ==
    /\ data \in InputTables
    /\ ret = NoReturn
    /\ roi = NoRoi
    /\ collector = NoCollection
    /\ installer = NotInstalling

\* mutant: the evaluated rows are filled in place (fillna(0, inplace=True))
SelfAfterCall_FilledInPlace(d) ==
    [d EXCEPT !.chile =
        [i \in DOMAIN @ |->
            [@[i] EXCEPT !.vals =
                [m \in DOMAIN @ |-> IF IsNaN(@[m]) THEN I(0) ELSE @[m]]]]]

\* the tables of the PortAnalytics object after an analysis call: no method
\* assigns to self.data, self.chilean_ports or self.top_performers, or changes
\* one in place (the frame that receives Overall_Gap_Score at line 71 is new)
SelfAfterCall(d) == d

\* what each call hands back to its caller
GapsReturn(d) ==
    [NoReturn EXCEPT
        !.op = "calculate_performance_gaps",
        !.gaps_df = calculate_performance_gaps(d),
        !.divisions = GapDivisions(d)]

PrioritiesReturn(d) ==
    [NoReturn EXCEPT
        !.op = "identify_improvement_priorities",
        !.priorities = identify_improvement_priorities(d),
        !.divisions = PriorityDivisions(d)]

RecommendationsOutcome(out) ==
    [NoReturn EXCEPT
        !.op = "generate_benchmarking_recommendations",
        !.recommendations = out.recommendations,
        !.raised = out.raised]

RecommendationsReturn(d) ==
    RecommendationsOutcome(generate_benchmarking_recommendations(d))

SummaryOutcomeReturn(d, out) ==
    [NoReturn EXCEPT
        !.op = "generate_executive_summary",
        !.summary = out.summary,
        !.gaps_df = out.gaps_df,
        !.raised = out.raised,
        !.divisions = SummaryDivisions(d)]

SummaryReturn(d) == SummaryOutcomeReturn(d, generate_executive_summary(d))

\* a call returns its value in ret; the caller takes it before the next call
CalculatePerformanceGaps ==
    /\ ret.op = "none"
    /\ ret' = GapsReturn(data)
    /\ data' = SelfAfterCall(data)
    /\ UNCHANGED <<roi, collector, installer>>

IdentifyImprovementPriorities ==
    /\ ret.op = "none"
    /\ ret' = PrioritiesReturn(data)
    /\ data' = SelfAfterCall(data)
    /\ UNCHANGED <<roi, collector, installer>>

GenerateBenchmarkingRecommendations ==
    /\ ret.op = "none"
    /\ ret' = RecommendationsReturn(data)
    /\ data' = SelfAfterCall(data)
    /\ UNCHANGED <<roi, collector, installer>>

GenerateExecutiveSummary ==
    /\ ret.op = "none"
    /\ ret' = SummaryReturn(data)
    /\ data' = SelfAfterCall(data)
    /\ UNCHANGED <<roi, collector, installer>>

TakeResult ==
    /\ ret.op # "none"
    /\ ret' = NoReturn
    /\ UNCHANGED <<data, roi, collector, installer>>

Next ==
    \/ CalculatePerformanceGaps
    \/ IdentifyImprovementPriorities
    \/ GenerateBenchmarkingRecommendations
    \/ GenerateExecutiveSummary
    \/ TakeResult

Spec == Init /\ [][Next]_vars

\* A table with six significant gaps per port.  For the first port
\* Rail_Connectivity_Percent (gap 75) and TEU_Annual_2023 (gap 26) have the
\* same roi_score, 1.05, below the other four; the second port is behind the
\* reference by more than 100 percent on CPPI_Score.
TiedTable ==
    [columns |-> KeyMetricSet,
     top |-> [i \in DOMAIN TopNames |->
                [Puerto |-> TopNames[i], vals |-> [m \in KeyMetricSet |-> I(100)]]],
     chile |-> [i \in DOMAIN ChileanNames |->
                  [Puerto |-> ChileanNames[i],
                   vals |-> [m \in KeyMetricSet |->
                       IF i = 1 /\ m = "Rail_Connectivity_Percent" THEN I(25)
                       ELSE IF i = 1 /\ m = "TEU_Annual_2023" THEN I(74)
                       ELSE IF i = 2 /\ m = "CPPI_Score" THEN I(-20)
                       ELSE I(60)]]]]

\* The same object called again while the caller still holds the value of the
\* previous call, on the tables one edit away from a base table or from the
\* table with the tie.
RepeatedCallTables ==
    {ApplyEdit(b, e) : b \in BaseTables \cup {TiedTable}, e \in Edits}

InitRepeated ==
    /\ data \in RepeatedCallTables
    /\ ret = NoReturn
    /\ roi = NoRoi
    /\ collector = NoCollection
    /\ installer = NotInstalling

CallAgain(r) ==
    /\ ret.op # "none"
    /\ ret' = [r EXCEPT !.repeated = TRUE]
    /\ data' = SelfAfterCall(data)
    /\ UNCHANGED <<roi, collector, installer>>

CalculatePerformanceGapsAgain == CallAgain(GapsReturn(data))
IdentifyImprovementPrioritiesAgain == CallAgain(PrioritiesReturn(data))
GenerateBenchmarkingRecommendationsAgain == CallAgain(RecommendationsReturn(data))
GenerateExecutiveSummaryAgain == CallAgain(SummaryReturn(data))

NextRepeated ==
    \/ Next
    \/ CalculatePerformanceGapsAgain
    \/ IdentifyImprovementPrioritiesAgain
    \/ GenerateBenchmarkingRecommendationsAgain
    \/ GenerateExecutiveSummaryAgain

SpecRepeated == InitRepeated /\ [][NextRepeated]_vars

-----------------------------------------------------------------------------
(* The ROI calculator called with arbitrary arguments *)

TeuInputs == {I(-1), I(0), I(1000000), I(1200000), PosInf, NaN, NotANumber}
CurrentProductivityInputs ==
    {I(-1), I(0), I(20), I(25), I(40), PosInf, NaN, NotANumber}
TargetProductivityInputs ==
    {I(-1), I(0), I(20), I(40), I(50), PosInf, NaN, NotANumber}
InvestmentInputs == {I(-1), I(0), I(100000), I(5000000), PosInf, NaN, NotANumber}
CostPerTeuInputs == {I(65), I(80), NaN, NotANumber}

InitRoi ==
    /\ data = ConsolidatedTable
    /\ ret = NoReturn
    /\ roi = NoRoi
    /\ collector = NoCollection
    /\ installer = NotInstalling

\* the dashboard script computes roi_results once per run (lines 457-464)
\* and shows them (lines 465-473)
CalculateRoi ==
    /\ ~roi.called
    /\ \E current_teu \in TeuInputs,
          current_productivity \in CurrentProductivityInputs,
          target_productivity \in TargetProductivityInputs,
          investment \in InvestmentInputs,
          cost_per_teu \in CostPerTeuInputs :
          roi' = RoiRun([current_teu |-> current_teu,
                         current_productivity |-> current_productivity,
                         target_productivity |-> target_productivity,
                         investment |-> investment,
                         cost_per_teu |-> cost_per_teu],
                        calculate_roi(current_teu, current_productivity,
                                      target_productivity, investment,
                                      cost_per_teu),
                        RoiDivisions(current_teu, current_productivity,
                                     target_productivity, investment,
                                     cost_per_teu))
    /\ UNCHANGED <<data, ret, collector, installer>>

\* Streamlit reruns the script on the next widget change: roi_results is dropped
Rerun ==
    /\ roi.called
    /\ roi' = NoRoi
    /\ UNCHANGED <<data, ret, collector, installer>>

NextRoi ==
    \/ CalculateRoi
    \/ Rerun

SpecRoi == InitRoi /\ [][NextRoi]_vars

-----------------------------------------------------------------------------
(* The ROI calculator as the dashboard's widgets feed it (lines 383-421,   *)
(* 457-473)                                                                *)

\* the rows of chilean_ports that the ROI column reads (lines 141-159)
BuiltInChileanPorts ==
    <<[Puerto |-> "Puerto Coronel", TEU_Annual |-> 800000,
       Berth_Productivity |-> 28, Cost_Per_TEU |-> 78],
      [Puerto |-> "Puerto Valparaíso", TEU_Annual |-> 1200000,
       Berth_Productivity |-> 25, Cost_Per_TEU |-> 85],
      [Puerto |-> "Puerto Lirquén", TEU_Annual |-> 450000,
       Berth_Productivity |-> 26, Cost_Per_TEU |-> 82],
      [Puerto |-> "Puerto San Vicente", TEU_Annual |-> 350000,
       Berth_Productivity |-> 22, Cost_Per_TEU |-> 92],
      [Puerto |-> "Puerto Mejillones", TEU_Annual |-> 280000,
       Berth_Productivity |-> 20, Cost_Per_TEU |-> 95],
      [Puerto |-> "Puerto Antofagasta", TEU_Annual |-> 320000,
       Berth_Productivity |-> 19, Cost_Per_TEU |-> 98],
      [Puerto |-> "Puerto Arica", TEU_Annual |-> 180000,
       Berth_Productivity |-> 18, Cost_Per_TEU |-> 105],
      [Puerto |-> "Puerto Iquique", TEU_Annual |-> 220000,
       Berth_Productivity |-> 17, Cost_Per_TEU |-> 102],
      [Puerto |-> "Puerto San Antonio", TEU_Annual |-> 1800000,
       Berth_Productivity |-> 15, Cost_Per_TEU |-> 110]>>

\* st.number_input of line 400: min_value, the default, a step above the
\* minimum, max_value
InvestmentChoices == {100000, 600000, 5000000, 100000000}

\* int(x) of a non-negative float
IntOf(a) == a.n \div a.d

\* mutant: the slider starts at 0
SliderMin_Zero(current_productivity) == 0

\* line 412: min_value=max(1, int(current_productivity))
SliderMin(current_productivity) ==
    IF IntOf(current_productivity) < 1 THEN 1 ELSE IntOf(current_productivity)

\* line 413: max_value
SliderMax == 50

\* The slider of lines 410-416 takes every integer from its minimum to its
\* maximum.  The positions taken here are the minimum and the values at
\* which every port's savings are whole dollars, so that the exact
\* arithmetic stays within 32-bit integers.
SliderStops == {20, 24, 25, 30, 32, 40, 48, 50}

SliderValues(current_productivity) ==
    {SliderMin(current_productivity)}
    \cup {t \in SliderStops : SliderMin(current_productivity) <= t /\ t <= SliderMax}

InitWidgets ==
    /\ data = ConsolidatedTable
    /\ ret = NoReturn
    /\ roi = NoRoi
    /\ collector = NoCollection
    /\ installer = NotInstalling

\* one run of the script's ROI column: the port of the selectbox, the
\* investment of the number input, the target of the slider
CalculateRoiFromWidgets ==
    /\ ~roi.called
    /\ \E p \in DOMAIN BuiltInChileanPorts, investment_amount \in InvestmentChoices :
          \E target_productivity \in
                 SliderValues(I(BuiltInChileanPorts[p].Berth_Productivity)) :
             roi' = RoiRun(
                 [current_teu |-> I(BuiltInChileanPorts[p].TEU_Annual),
                  current_productivity |-> I(BuiltInChileanPorts[p].Berth_Productivity),
                  target_productivity |-> I(target_productivity),
                  investment |-> I(investment_amount),
                  cost_per_teu |-> I(BuiltInChileanPorts[p].Cost_Per_TEU)],
                 calculate_roi(I(BuiltInChileanPorts[p].TEU_Annual),
                               I(BuiltInChileanPorts[p].Berth_Productivity),
                               I(target_productivity), I(investment_amount),
                               I(BuiltInChileanPorts[p].Cost_Per_TEU)),
                 RoiDivisions(I(BuiltInChileanPorts[p].TEU_Annual),
                              I(BuiltInChileanPorts[p].Berth_Productivity),
                              I(target_productivity), I(investment_amount),
                              I(BuiltInChileanPorts[p].Cost_Per_TEU)))
    /\ UNCHANGED <<data, ret, collector, installer>>

NextWidgets ==
    \/ CalculateRoiFromWidgets
    \/ Rerun

SpecWidgets == InitWidgets /\ [][NextWidgets]_vars

-----------------------------------------------------------------------------
(* The analytics and the ROI calculator side by side.  calculate_roi does  *)
(* not read the table, so the calculator is run beside one table only, the *)
(* one the collector delivers.                                             *)

CalculateRoiOnDashboard ==
    /\ data = ConsolidatedTable
    /\ ret.op = "none"
    /\ CalculateRoi

\* the analytics run between two runs of the calculator
AnalyticsCall ==
    /\ ~roi.called
    /\ Next

NextAll ==
    \/ AnalyticsCall
    \/ CalculateRoiOnDashboard
    \/ Rerun

SpecAll == Init /\ [][NextAll]_vars

-----------------------------------------------------------------------------
(* Properties of calculate_roi, checked under SpecRoi *)

IsDegenerate(r) ==
    /\ r.annual_savings = I(0)
    /\ IsNaN(r.roi_percentage)
    /\ r.payback_years = PosInf
    /\ IsNaN(r.productivity_improvement_pct)
    /\ r.cost_reduction_per_teu = I(0)

\* investment > 0, throughput > 0, current productivity >= 0, target > 0
\* and a numeric cost per TEU
ValidRoiArgs(a) ==
    /\ FGt(a.investment, I(0))
    /\ FGt(a.current_teu, I(0))
    /\ FGe(a.current_productivity, I(0))
    /\ FGt(a.target_productivity, I(0))
    /\ ~IsErr(a.cost_per_teu)

\* C1: calculate_roi returns the degenerate estimate (annual_savings 0,
\* roi_percentage NaN, payback_years +infinity, productivity_improvement_pct
\* NaN, cost_reduction_per_teu 0) whenever investment <= 0, or current_teu <= 0,
\* or current_productivity < 0, or target_productivity <= 0.
C1_DegenerateOnInvalidInput ==
    (/\ roi.called
     /\ \/ FLe(roi.args.investment, I(0))
        \/ FLe(roi.args.current_teu, I(0))
        \/ FLt(roi.args.current_productivity, I(0))
        \/ FLe(roi.args.target_productivity, I(0)))
    => IsDegenerate(roi.result)

\* investment = 0 is the only invalid argument, and the estimate is degenerate
C1_Witness ==
    /\ roi.called
    /\ roi.args.investment = I(0)
    /\ roi.args.current_teu = I(1000000)
    /\ roi.args.current_productivity = I(20)
    /\ roi.args.target_productivity = I(40)
    /\ roi.args.cost_per_teu = I(80)
    /\ IsDegenerate(roi.result)

\* C2 as stated: for every valid input with target_productivity <=
\* current_productivity, annual_savings = 0 and roi_percentage = -100 exactly.
C2_Original ==
    (/\ roi.called
     /\ ValidRoiArgs(roi.args)
     /\ FLe(roi.args.target_productivity, roi.args.current_productivity))
    => /\ roi.result.annual_savings = I(0)
       /\ roi.result.roi_percentage = I(-100)

\* C2 amended: the same for every valid input whose investment is finite.
C2_NoImprovementFiniteInvestment ==
    (/\ roi.called
     /\ ValidRoiArgs(roi.args)
     /\ IsFinite(roi.args.investment)
     /\ FLe(roi.args.target_productivity, roi.args.current_productivity))
    => /\ roi.result.annual_savings = I(0)
       /\ roi.result.roi_percentage = I(-100)

\* a target below the current productivity, a finite investment, ROI -100
C2_Witness ==
    /\ roi.called
    /\ roi.args.investment = I(5000000)
    /\ roi.args.current_teu = I(1000000)
    /\ roi.args.current_productivity = I(40)
    /\ roi.args.target_productivity = I(20)
    /\ roi.result.annual_savings = I(0)
    /\ roi.result.roi_percentage = I(-100)

\* the savings of the horizon years at discount rate 0: one annual_savings
\* per year, summed
RECURSIVE PresentValueUndiscounted(_, _)
PresentValueUndiscounted(annual_savings, years) ==
    IF years = 0 THEN I(0)
    ELSE FAdd(PresentValueUndiscounted(annual_savings, years - 1), annual_savings)

\* C11: for every valid input, total_savings_3_years is the undiscounted sum
\* of annual_savings over the 3 years of the horizon (3 * annual_savings) and
\* roi_percentage = (total_savings_3_years - investment) / investment * 100.
C11_RoiOverThreeYearHorizon ==
    (roi.called /\ ValidRoiArgs(roi.args)) =>
        LET pv == PresentValueUndiscounted(roi.result.annual_savings, 3)
        IN /\ roi.result.total_savings_3_years = pv
           /\ roi.result.roi_percentage
                = FMul(FDiv(FSub(pv, roi.args.investment), roi.args.investment),
                       I(100))

\* annual savings 24,000,000 on an investment of 5,000,000: ROI 1340 percent
C11_Witness ==
    /\ roi.called
    /\ ValidRoiArgs(roi.args)
    /\ roi.args.investment = I(5000000)
    /\ roi.result.annual_savings = I(24000000)
    /\ roi.result.total_savings_3_years = I(72000000)
    /\ roi.result.roi_percentage = I(1340)

\* C10 as stated: throughput 1,000,000, cost per unit 80, current productivity
\* 20, target productivity 40 and investment 5,000,000 give cost reduction per
\* unit 20, annual savings 8,400,000, present-value savings 25,200,000 and ROI
\* percentage 404 (coverage 0.6, efficiency factor 0.5, adoption 0.7, horizon 3,
\* discount rate 0).
C10_WorkedExample ==
    (/\ roi.called
     /\ roi.args.current_teu = I(1000000)
     /\ roi.args.current_productivity = I(20)
     /\ roi.args.target_productivity = I(40)
     /\ roi.args.investment = I(5000000)
     /\ roi.args.cost_per_teu = I(80))
    => /\ roi.result.cost_reduction_per_teu = I(20)
       /\ roi.result.annual_savings = I(8400000)
       /\ roi.result.total_savings_3_years = I(25200000)
       /\ roi.result.roi_percentage = I(404)

-----------------------------------------------------------------------------
(* Properties of the gap analytics, checked under Spec *)

\* the reference group's average and the port's own value, from the tables
RefAvg(m) == SeriesMean(Column(data.top, m))
PortValue(i, m) == data.chile[i].vals[m]

GapsReturned == ret.op = "calculate_performance_gaps"
PrioritiesReturned == ret.op = "identify_improvement_priorities"

\* C3: for every evaluated port and every key metric whose reference average
\* avg is > 0, the emitted percentage gap is (avg - value) / avg * 100 (NaN
\* when the port's value is missing); avg = 100 and value = 60 give 40.
C3_PercentageGapFormula ==
    GapsReturned =>
        \A i \in DOMAIN ret.gaps_df.rows : \A m \in ret.gaps_df.columns :
            LET avg == RefAvg(m)
                value == PortValue(i, m)
                g == ret.gaps_df.rows[i].Gap_Percentage[m]
            IN FGt(avg, I(0)) =>
                  IF IsNaN(value) THEN IsNaN(g)
                  ELSE IsFin(g) /\ FMul(g, avg) = FMul(FSub(avg, value), I(100))

C3_Witness ==
    /\ GapsReturned
    /\ \E i \in DOMAIN ret.gaps_df.rows : \E m \in ret.gaps_df.columns :
          /\ RefAvg(m) = I(100)
          /\ PortValue(i, m) = I(60)
          /\ ret.gaps_df.rows[i].Gap_Percentage[m] = I(40)

\* C4: for every metric whose reference average is <= 0 the emitted
\* percentage gap is exactly 0 for every port, whatever the port's value.
C4_ZeroGapOnNonPositiveAverage ==
    GapsReturned =>
        \A i \in DOMAIN ret.gaps_df.rows : \A m \in ret.gaps_df.columns :
            FLe(RefAvg(m), I(0)) => ret.gaps_df.rows[i].Gap_Percentage[m] = I(0)

\* a negative reference average and a port value different from it
C4_Witness ==
    /\ GapsReturned
    /\ \E i \in DOMAIN ret.gaps_df.rows : \E m \in ret.gaps_df.columns :
          /\ FLt(RefAvg(m), I(0))
          /\ PortValue(i, m) = I(60)
          /\ ret.gaps_df.rows[i].Gap_Percentage[m] = I(0)

\* the weighted metrics that have gap columns
WeightedColumns == {m \in ret.gaps_df.columns :
                      \E j \in DOMAIN WeightedMetrics : WeightedMetrics[j] = m}

\* C5: every port's Overall_Gap_Score is >= 0, and it is 0 only when the
\* port's value meets or exceeds the reference average on every weighted metric.
C5_CompositeScoreNonNegative ==
    GapsReturned =>
        \A i \in DOMAIN ret.gaps_df.rows :
            LET score == ret.gaps_df.rows[i].Overall_Gap_Score
            IN /\ FGe(score, I(0))
               /\ score = I(0) =>
                    \A m \in WeightedColumns : FGe(PortValue(i, m), RefAvg(m))

\* the weighted mean of |percentage gap| over the metrics in `over`
WeightedMeanOfGaps(row, over) ==
    LET used == SelectSeq(WeightedMetrics, LAMBDA m : m \in over)
        num == SumSeq([j \in DOMAIN used |->
                         FMul(FAbs(row.Gap_Percentage[used[j]]),
                              metric_weights(used[j]))])
        den == SumSeq([j \in DOMAIN used |-> metric_weights(used[j])])
    IN IF used = <<>> THEN I(0) ELSE Round2(FDiv(num, den))

\* C6: a port's composite score is sum(weight * |percentage gap|) / sum(weight)
\* (to 2 decimals) over exactly the weighted metrics with a computed gap for
\* that port: a weighted metric whose value is absent for the port is in
\* neither the numerator nor the denominator.
C6_CompositeSkipsAbsentValues ==
    GapsReturned =>
        \A i \in DOMAIN ret.gaps_df.rows :
            ret.gaps_df.rows[i].Overall_Gap_Score
              = WeightedMeanOfGaps(ret.gaps_df.rows[i],
                                   {m \in WeightedColumns : ~IsNaN(PortValue(i, m))})

\* C7: every port's priority list has at most 5 items, with roi_score
\* non-increasing from first to last.
C7_AtMostFiveDescending ==
    PrioritiesReturned =>
        \A i \in DOMAIN ret.priorities :
            LET items == ret.priorities[i].items
            IN /\ Len(items) <= 5
               /\ \A j \in 1..(Len(items) - 1) :
                     FGe(items[j].roi_score, items[j + 1].roi_score)

\* the gap of port i on metric m exceeds 20 percent of the reference average
GapAbove20(i, m) ==
    LET avg == RefAvg(m)
    IN /\ FGt(avg, I(0))
       /\ FGt(FMul(FSub(avg, PortValue(i, m)), I(100)), FMul(I(20), avg))

\* six significant metrics for one port, five of them returned, not all with
\* the same roi_score
C7_Witness ==
    /\ PrioritiesReturned
    /\ \E i \in DOMAIN ret.priorities :
          /\ \A m \in KeyMetricSet : m \in data.columns /\ GapAbove20(i, m)
          /\ Len(ret.priorities[i].items) = 5
          /\ FGt(ret.priorities[i].items[1].roi_score,
                 ret.priorities[i].items[5].roi_score)

\* the tier the thresholds 20 / 30 / 50 assign
TierOf(g) ==
    IF FGe(g, I(50)) THEN "CRÍTICA"
    ELSE IF FGe(g, I(30)) /\ FLt(g, I(50)) THEN "ALTA"
    ELSE IF FGe(g, I(20)) /\ FLt(g, I(30)) THEN "MEDIA"
    ELSE "BAJA"

\* C8: _get_priority_level gives CRITICAL for g >= 50, HIGH for 30 <= g < 50,
\* MEDIUM for 20 <= g < 30 and LOW for g < 20, on every emitted gap; every
\* returned priority item carries that tier and it is never LOW.
C8_PriorityTiers ==
    /\ GapsReturned =>
          \A i \in DOMAIN ret.gaps_df.rows : \A m \in ret.gaps_df.columns :
              LET g == ret.gaps_df.rows[i].Gap_Percentage[m]
              IN ~IsNaN(g) => _get_priority_level(g) = TierOf(g)
    /\ PrioritiesReturned =>
          \A i \in DOMAIN ret.priorities :
              \A j \in DOMAIN ret.priorities[i].items :
                  LET it == ret.priorities[i].items[j]
                  IN /\ it.priority_level = TierOf(it.gap_percentage)
                     /\ it.priority_level \in {"MEDIA", "ALTA", "CRÍTICA"}

\* one port's list holds a MEDIUM and a HIGH item
C8_Witness ==
    /\ PrioritiesReturned
    /\ \E i \in DOMAIN ret.priorities :
          /\ \E j \in DOMAIN ret.priorities[i].items :
                ret.priorities[i].items[j].priority_level = "MEDIA"
          /\ \E j \in DOMAIN ret.priorities[i].items :
                ret.priorities[i].items[j].priority_level = "ALTA"

\* C9: a (port, metric) pair is a priority item only if its percentage gap
\* is strictly greater than 20.
C9_OnlyGapsAbove20 ==
    PrioritiesReturned =>
        \A i \in DOMAIN ret.priorities :
            \A j \in DOMAIN ret.priorities[i].items :
                GapAbove20(i, ret.priorities[i].items[j].metric)

\* a port with a gap of exactly 20 on one metric, which is not in its
\* non-empty list
C9_Witness ==
    /\ PrioritiesReturned
    /\ \E i \in DOMAIN ret.priorities : \E m \in data.columns :
          /\ RefAvg(m) = I(100)
          /\ PortValue(i, m) = I(80)
          /\ ret.priorities[i].items # <<>>
          /\ \A j \in DOMAIN ret.priorities[i].items :
                ret.priorities[i].items[j].metric # m

-----------------------------------------------------------------------------
(* Further properties of calculate_roi, checked under SpecRoi *)

\* C12: for every input, payback_years equals investment / annual_savings
\* when annual_savings > 0 and is +infinity otherwise; annual_savings is the
\* denominator of a division only when it is > 0.
C12_PaybackYears ==
    roi.called =>
        /\ IF FGt(roi.result.annual_savings, I(0))
           THEN roi.result.payback_years
                  = FDiv(roi.args.investment, roi.result.annual_savings)
           ELSE roi.result.payback_years = PosInf
        /\ \A j \in DOMAIN roi.divisions :
              roi.divisions[j].site = "payback_years"
                => /\ FGt(roi.divisions[j].den, I(0))
                   /\ roi.divisions[j].den = roi.result.annual_savings

\* valid arguments without any improvement: savings 0, payback +infinity and
\* no division by the savings
C12_Witness ==
    /\ roi.called
    /\ ValidRoiArgs(roi.args)
    /\ IsFinite(roi.args.investment)
    /\ roi.args.target_productivity = I(20)
    /\ roi.args.current_productivity = I(40)
    /\ roi.result.annual_savings = I(0)
    /\ roi.result.payback_years = PosInf
    /\ \A j \in DOMAIN roi.divisions : roi.divisions[j].site # "payback_years"
    /\ roi.divisions # <<>>

\* C13 as stated: for every valid input (with finite productivities and
\* current_productivity > 0), productivity_improvement_pct equals
\* (target - current) / current * 100 without clamping, so it is negative
\* for target < current.
C13_UnclampedImprovementPct ==
    (/\ roi.called
     /\ ValidRoiArgs(roi.args)
     /\ IsFinite(roi.args.target_productivity)
     /\ IsFinite(roi.args.current_productivity)
     /\ FGt(roi.args.current_productivity, I(0)))
    => roi.result.productivity_improvement_pct
         = FMul(FDiv(FSub(roi.args.target_productivity,
                          roi.args.current_productivity),
                     roi.args.current_productivity), I(100))

\* some argument is one that float() cannot convert
UnconvertibleArg(a) ==
    \E x \in {a.current_teu, a.current_productivity, a.target_productivity,
              a.investment, a.cost_per_teu} : IsErr(x)

\* C14: calculate_roi never raises: no field of its return value is an
\* exception, and for any argument that cannot be converted to a number it
\* returns the degenerate estimate (annual_savings 0, roi_percentage NaN,
\* payback_years +infinity, productivity_improvement_pct NaN,
\* cost_reduction_per_teu 0).
C14_NeverRaises ==
    roi.called =>
        /\ \A f \in DOMAIN roi.result : ~IsErr(roi.result[f])
        /\ UnconvertibleArg(roi.args) => IsDegenerate(roi.result)

\* only the investment is not a number, and the estimate is degenerate
C14_Witness ==
    /\ roi.called
    /\ roi.args.investment = NotANumber
    /\ roi.args.current_teu = I(1000000)
    /\ roi.args.current_productivity = I(20)
    /\ roi.args.target_productivity = I(40)
    /\ roi.args.cost_per_teu = I(65)
    /\ IsDegenerate(roi.result)
    /\ roi.result.total_savings_3_years = I(0)

-----------------------------------------------------------------------------
(* Missing values and degenerate tables, checked under Spec *)

\* no member of the reference group has a value for metric m
NoReferenceValue(m) == \A i \in DOMAIN data.top : IsNaN(data.top[i].vals[m])

\* C16 as stated: a metric without a value for any member of the reference
\* group is skipped: gaps_df has no gap columns for it, whatever the port.
C16_MetricWithoutReferenceSkipped ==
    GapsReturned =>
        \A m \in KeyMetricSet : NoReferenceValue(m) => m \notin ret.gaps_df.columns

\* the table in which port i has the measured value 0 for metric m
WithZero(i, m) == [data EXCEPT !.chile[i].vals[m] = I(0)]

\* the gap fields of metric m in a row of gaps_df
GapFields(row, m) ==
    <<row.Gap_Average[m], row.Gap_Best[m], row.Gap_Percentage[m]>>

\* the mean of the values the reference group has for m, taken as absent
\* when missing
MeanOfPresent(m) ==
    LET present == {i \in DOMAIN data.top : ~IsNaN(data.top[i].vals[m])}
    IN IF present = {} THEN NaN
       ELSE FDiv(SumSeq([i \in DOMAIN data.top |->
                           IF i \in present THEN data.top[i].vals[m] ELSE I(0)]),
                 I(Cardinality(present)))

\* C17 as stated: a missing value is never treated as 0.  The reference
\* average a gap is taken from leaves out the missing reference values, and
\* for a port lacking the value of a metric the gap fields of that metric,
\* and the composite score when the metric is weighted, differ from the ones
\* a measured value of 0 would give.
C17_MissingIsNotZero ==
    GapsReturned =>
        \A i \in DOMAIN ret.gaps_df.rows : \A m \in ret.gaps_df.columns :
            /\ ret.gaps_df.rows[i].Gap_Average[m]
                 = FSub(MeanOfPresent(m), PortValue(i, m))
            /\ IsNaN(PortValue(i, m)) =>
                 LET zero == calculate_performance_gaps(WithZero(i, m)).rows[i]
                 IN /\ GapFields(ret.gaps_df.rows[i], m) # GapFields(zero, m)
                    /\ m \in WeightedColumns =>
                         ret.gaps_df.rows[i].Overall_Gap_Score
                           # zero.Overall_Gap_Score

-----------------------------------------------------------------------------
(* Division guards, checked under SpecAll *)

\* the division sites of the gap, composite-score and priority computations
GuardedSites == {"gap_percentage", "composite_score", "roi_score", "gap_factor"}

SummaryReturned == ret.op = "generate_executive_summary"

\* the degenerate tables: an empty reference group, an empty set of evaluated
\* ports, a key metric without a column, or a reference average of 0
DegenerateTable ==
    \/ data.top = <<>>
    \/ data.chile = <<>>
    \/ data.columns # KeyMetricSet
    \/ \E m \in data.columns : RefAvg(m) = I(0)

\* C19 as stated: on a degenerate table generate_executive_summary completes
\* without raising (as calculate_performance_gaps and
\* identify_improvement_priorities do), and the composite score of every port
\* is 0 when no weighted metric has a gap column.
C19_NoRaiseOnDegenerateTable ==
    /\ (SummaryReturned /\ DegenerateTable) => ret.raised = "none"
    /\ (GapsReturned /\ WeightedColumns = {}) =>
          \A i \in DOMAIN ret.gaps_df.rows :
              ret.gaps_df.rows[i].Overall_Gap_Score = I(0)

-----------------------------------------------------------------------------
(* The executive summary, checked under Spec *)

\* the class the thresholds 25 / 40 assign
ClassOf(gap) ==
    IF FGt(gap, I(40)) THEN "CRÍTICO"
    ELSE IF FGt(gap, I(25)) /\ FLe(gap, I(40)) THEN "SIGNIFICATIVO"
    ELSE "MODERADO"

\* the mean CPPI score of the evaluated ports
EntityAvg == SeriesMean(Column(data.chile, "CPPI_Score"))

\* C20: a returned summary has the overall gap (refAvg - entityAvg) / refAvg
\* * 100 over the two groups' mean CPPI scores (reported to one decimal),
\* classed CRITICAL when > 40, SIGNIFICANT when > 25 and <= 40 and MODERATE
\* otherwise: exactly 40 is SIGNIFICANT and exactly 25 is MODERATE.
C20_OverallGapClassification ==
    (SummaryReturned /\ ret.raised = "none") =>
        LET refAvg == RefAvg("CPPI_Score")
            p == ret.summary.overall_performance
        IN (IsFin(refAvg) /\ refAvg.n # 0 /\ IsFin(EntityAvg)) =>
              LET gap == FMul(FDiv(FSub(refAvg, EntityAvg), refAvg), I(100))
              IN /\ p.overall_gap_percentage = Round1(gap)
                 /\ p.gap_classification = ClassOf(gap)
                 /\ gap = I(40) => p.gap_classification = "SIGNIFICATIVO"
                 /\ gap = I(25) => p.gap_classification = "MODERADO"

\* means of 100 and 60: a gap of exactly 40, classed SIGNIFICANT
C20_Witness ==
    /\ SummaryReturned
    /\ ret.raised = "none"
    /\ RefAvg("CPPI_Score") = I(100)
    /\ EntityAvg = I(60)
    /\ ret.summary.overall_performance.overall_gap_percentage = I(40)
    /\ ret.summary.overall_performance.gap_classification = "SIGNIFICATIVO"

\* the criticality of metric m over the rows of the frame: the mean of the
\* ports' percentage gaps times the share of ports with a gap > 30
Criticality(m) ==
    LET gaps == [i \in DOMAIN ret.gaps_df.rows |->
                    ret.gaps_df.rows[i].Gap_Percentage[m]]
        affected == {i \in DOMAIN gaps : FGt(gaps[i], I(30))}
    IN FMul(SeriesMean(gaps), F(Cardinality(affected), Len(gaps)))

\* the metrics named in the summary's critical areas
CriticalMetrics ==
    {m \in ret.gaps_df.columns :
        \E j \in DOMAIN ret.summary.critical_areas :
            ret.summary.critical_areas[j].metric = _get_metric_display_name(m)}

\* C21: the critical areas of a returned summary are at most 3 metrics (3,
\* or all the metrics with a gap column when fewer), each once and with
\* criticality_score = (mean percentage gap over the ports) * (ports with a
\* gap > 30 / ports); no area is followed by one of strictly higher
\* criticality, and no metric left out has a strictly higher criticality than
\* one included.
C21_TopThreeCriticalMetrics ==
    (SummaryReturned /\ ret.raised = "none") =>
        LET areas == ret.summary.critical_areas
            n == Cardinality(ret.gaps_df.columns)
        IN /\ Len(areas) = (IF n < 3 THEN n ELSE 3)
           /\ Cardinality(CriticalMetrics) = Len(areas)
           /\ \A j \in DOMAIN areas :
                 \E m \in CriticalMetrics :
                     /\ areas[j].metric = _get_metric_display_name(m)
                     /\ areas[j].criticality_score = Criticality(m)
           /\ \A j \in 1..(Len(areas) - 1) :
                 ~FGt(areas[j + 1].criticality_score, areas[j].criticality_score)
           /\ \A m \in ret.gaps_df.columns \ CriticalMetrics :
                 \A j \in DOMAIN areas :
                     ~FGt(Criticality(m), areas[j].criticality_score)

\* six metrics, the first of key_metrics less critical than the three named
C21_Witness ==
    /\ SummaryReturned
    /\ ret.raised = "none"
    /\ ret.gaps_df.columns = KeyMetricSet
    /\ Len(ret.summary.critical_areas) = 3
    /\ "CPPI_Score" \notin CriticalMetrics
    /\ FLt(Criticality("CPPI_Score"),
           ret.summary.critical_areas[3].criticality_score)
    /\ FGt(Criticality("CPPI_Score"), I(0))

NonFiniteOrNonNumeric == {NaN, PosInf, NegInf, NotANumber}

RenderedFields ==
    {"roi_percentage", "annual_savings", "payback_years",
     "productivity_improvement_pct"}

-----------------------------------------------------------------------------
(* Data acquisition: PortDataCollector.get_chilean_port_data and           *)
(* get_container_throughput_data, called in this order by                  *)
(* consolidate_all_data (lines 238-239)                                    *)

PlaceholderKey == "YOUR_API_KEY_HERE"

ApiKeys == {PlaceholderKey, "configured"}

\* what the server may answer: the status line and the shape of the body
Statuses == {200, 404, 500}

Bodies ==
    {"not JSON", "null", "number", "array", "object without result",
     "result: scalar", "result: empty list", "result: records",
     "result: records with teu, without Puerto"}

\* one requests.get: an exception of the transport, or a response
Exchanges ==
    [error : {"ConnectionError", "Timeout"}, status : {0}, body : {"none"}]
    \cup [error : {"none"}, status : Statuses, body : Bodies]

HasResultField(body) ==
    body \in {"result: scalar", "result: empty list", "result: records",
              "result: records with teu, without Puerto"}

Simulated(x) ==
    [table |-> "simulated", raised |-> "none", requested |-> TRUE,
     exchange |-> x]

Processed(x) ==
    [table |-> "processed", raised |-> "none", requested |-> TRUE,
     exchange |-> x]

Propagated(e, x) ==
    [table |-> "none", raised |-> e, requested |-> TRUE, exchange |-> x]

\* lines 83-99 (114-127) once the request is sent.  except catches
\* requests.RequestException only: the transport's exceptions, the HTTPError
\* of raise_for_status and the JSONDecodeError of response.json() (a
\* RequestException in the requests>=2.31.0 that setup.py installs).
AfterRequest(method, x) ==
    IF x.error # "none" THEN Simulated(x)
    ELSE IF x.status >= 400 THEN Simulated(x)
    ELSE IF x.body = "not JSON" THEN Simulated(x)
    ELSE IF x.body \in {"null", "number"}
    THEN Propagated("TypeError: 'result' in data (lines 89, 119)", x)
    ELSE IF ~HasResultField(x.body) THEN Simulated(x)
    ELSE IF x.body = "result: scalar"
    THEN Propagated("ValueError: pd.DataFrame(data['result']) (lines 90, 120)", x)
    ELSE IF /\ method = "get_container_throughput_data"
            /\ x.body = "result: records with teu, without Puerto"
    THEN Propagated("KeyError: groupby('Puerto') (line 377)", x)
    ELSE Processed(x)

\* lines 79-81 (111-112): with the placeholder key nothing is requested
Acquire(method, api_key, x) ==
    IF api_key = PlaceholderKey
    THEN [table |-> "simulated", raised |-> "none", requested |-> FALSE,
          exchange |-> NoExchange]
    ELSE AfterRequest(method, x)

Sent(r) == IF r.requested THEN 1 ELSE 0

InitCollector ==
    /\ data = ConsolidatedTable
    /\ ret = NoReturn
    /\ roi = NoRoi
    /\ installer = NotInstalling
    /\ \E k \in ApiKeys : collector = [NoCollection EXCEPT !.api_key = k]

GetChileanPortData ==
    /\ collector.pc = "start"
    /\ \E x \in Exchanges :
          LET r == Acquire("get_chilean_port_data", collector.api_key, x)
          IN collector' = [collector EXCEPT
                             !.chilean = r,
                             !.requests_sent = @ + Sent(r),
                             !.pc = IF r.raised # "none" THEN "raised"
                                    ELSE "chilean_data"]
    /\ UNCHANGED <<data, ret, roi, installer>>

GetContainerThroughputData ==
    /\ collector.pc = "chilean_data"
    /\ \E x \in Exchanges :
          LET r == Acquire("get_container_throughput_data",
                           collector.api_key, x)
          IN collector' = [collector EXCEPT
                             !.throughput = r,
                             !.requests_sent = @ + Sent(r),
                             !.pc = IF r.raised # "none" THEN "raised"
                                    ELSE "throughput_data"]
    /\ UNCHANGED <<data, ret, roi, installer>>

NextCollector ==
    \/ GetChileanPortData
    \/ GetContainerThroughputData

SpecCollector == InitCollector /\ [][NextCollector]_vars

\* the calls made so far
AcquisitionCalls ==
    {r \in {collector.chilean, collector.throughput} :
        r.table # "none" \/ r.raised # "none"}

\* C24: each acquisition call ends with a table and without an exception: the
\* simulated one, with no request sent, under the placeholder key; the
\* simulated one when the request fails, the status is an error, or the
\* response has no 'result' field; processed data only after a successful
\* response with 'result'.
C24_AcquisitionEndsWithTable ==
    \A r \in AcquisitionCalls :
        /\ r.raised = "none"
        /\ r.table \in {"simulated", "processed"}
        /\ collector.api_key = PlaceholderKey =>
              (r.table = "simulated" /\ ~r.requested /\ collector.requests_sent = 0)
        /\ (r.requested /\ (r.exchange.error # "none" \/ r.exchange.status >= 400))
              => r.table = "simulated"
        /\ (r.requested /\ ~HasResultField(r.exchange.body)) => r.table = "simulated"
        /\ r.table = "processed" =>
              (r.exchange.error = "none" /\ r.exchange.status = 200
               /\ HasResultField(r.exchange.body))

-----------------------------------------------------------------------------
(* The priority lists, checked under SpecRepeated *)

\* the percentage gap of port i on metric m, from the table
GapOf(i, m) == FMul(FDiv(FSub(RefAvg(m), PortValue(i, m)), RefAvg(m)), I(100))

\* the significant metrics of port i
SignificantMetrics(i) == {m \in KeyMetricSet : m \in data.columns /\ GapAbove20(i, m)}

\* the static impact factor of a metric, 0.5 for a metric not in the table
BaseImpact(m) ==
    CASE m = "CPPI_Score" -> F(1, 1)
      [] m = "Berth_Productivity_Moves_Hour" -> F(9, 10)
      [] m = "Automation_Level" -> F(8, 10)
      [] m = "Digital_Systems_Score" -> F(7, 10)
      [] m = "Rail_Connectivity_Percent" -> F(6, 10)
      [] OTHER -> F(1, 2)

\* base * (1 + min(g / 100, 1.0))
ImpactOf(m, g) ==
    FMul(BaseImpact(m),
         FAdd(I(1), IF FLt(g, I(100)) THEN FDiv(g, I(100)) ELSE I(1)))

\* the roi_score of the candidate item of port i for metric m
RoiScoreOf(i, m) ==
    FDiv(ImpactOf(m, GapOf(i, m)), _estimate_implementation_difficulty(m))

ListedMetrics(i) ==
    {ret.priorities[i].items[j].metric : j \in DOMAIN ret.priorities[i].items}

KeyIndex(m) == CHOOSE k \in DOMAIN key_metrics : key_metrics[k] = m

\* C25: a port's priority list holds each metric at most once and only
\* significant ones; with 5 or fewer significant metrics all of them are
\* listed; with more than 5, five are listed and no omitted one has a strictly
\* greater roi_score than a listed one.
C25_HighestRoiItemsReturned ==
    PrioritiesReturned =>
        \A i \in DOMAIN ret.priorities :
            LET items == ret.priorities[i].items
                significant == SignificantMetrics(i)
            IN /\ Cardinality(ListedMetrics(i)) = Len(items)
               /\ ListedMetrics(i) \subseteq significant
               /\ Cardinality(significant) <= 5 => ListedMetrics(i) = significant
               /\ Cardinality(significant) > 5 =>
                     /\ Len(items) = 5
                     /\ \A m \in significant \ ListedMetrics(i) :
                           \A j \in DOMAIN items :
                               ~FGt(RoiScoreOf(i, m), items[j].roi_score)

\* six significant metrics, the omitted one strictly below the five listed,
\* and the list not in key_metrics order
C25_Witness ==
    /\ PrioritiesReturned
    /\ \E i \in DOMAIN ret.priorities :
          /\ SignificantMetrics(i) = KeyMetricSet
          /\ Len(ret.priorities[i].items) = 5
          /\ \E m \in KeyMetricSet \ ListedMetrics(i) :
                /\ m # "TEU_Annual_2023"
                /\ FLt(RoiScoreOf(i, m), ret.priorities[i].items[5].roi_score)

\* C26: roi_score = impact_potential / implementation_difficulty for every
\* item, and among the candidates of one port with equal roi_score the order of
\* key_metrics is kept: in the list, and across the cut after the fifth item.
C26_RoiScoreAndStableTies ==
    PrioritiesReturned =>
        \A i \in DOMAIN ret.priorities :
            LET items == ret.priorities[i].items
            IN /\ \A j \in DOMAIN items :
                     /\ items[j].roi_score
                          = FDiv(items[j].impact_potential,
                                 items[j].implementation_difficulty)
                     /\ items[j].roi_score = RoiScoreOf(i, items[j].metric)
               /\ \A j, k \in DOMAIN items :
                     (j < k /\ items[j].roi_score = items[k].roi_score)
                        => KeyIndex(items[j].metric) < KeyIndex(items[k].metric)
               /\ \A m \in SignificantMetrics(i) \ ListedMetrics(i) :
                     \A j \in DOMAIN items :
                         items[j].roi_score = RoiScoreOf(i, m)
                            => KeyIndex(items[j].metric) < KeyIndex(m)

\* the fifth item and the omitted sixth candidate have the same roi_score
C26_Witness ==
    /\ PrioritiesReturned
    /\ \E i \in DOMAIN ret.priorities :
          /\ Len(ret.priorities[i].items) = 5
          /\ ret.priorities[i].items[5].metric = "Rail_Connectivity_Percent"
          /\ "TEU_Annual_2023" \in SignificantMetrics(i) \ ListedMetrics(i)
          /\ RoiScoreOf(i, "TEU_Annual_2023") = ret.priorities[i].items[5].roi_score

\* C27: impact_potential = base * (1 + min(g / 100, 1.0)) with base the
\* metric's impact factor, 0.5 for an unlisted metric; for every returned item
\* 1.2 * base < impact_potential <= 2 * base.
C27_ImpactPotentialRange ==
    PrioritiesReturned =>
        \A i \in DOMAIN ret.priorities :
            \A j \in DOMAIN ret.priorities[i].items :
                LET it == ret.priorities[i].items[j]
                    base == BaseImpact(it.metric)
                IN /\ it.gap_percentage = GapOf(i, it.metric)
                   /\ it.impact_potential = ImpactOf(it.metric, it.gap_percentage)
                   /\ FGt(it.impact_potential, FMul(F(12, 10), base))
                   /\ FLe(it.impact_potential, FMul(I(2), base))

\* an item with a gap above 100 whose impact is twice the base, and an item
\* of the metric without an impact factor
C27_Witness ==
    /\ PrioritiesReturned
    /\ \E i \in DOMAIN ret.priorities :
          /\ \E j \in DOMAIN ret.priorities[i].items :
                /\ FGt(ret.priorities[i].items[j].gap_percentage, I(100))
                /\ ret.priorities[i].items[j].impact_potential
                     = FMul(I(2), BaseImpact(ret.priorities[i].items[j].metric))
          /\ \E j \in DOMAIN ret.priorities[i].items :
                /\ ret.priorities[i].items[j].metric = "TEU_Annual_2023"
                /\ ret.priorities[i].items[j].impact_potential
                     = FMul(F(1, 2), FAdd(I(1), FDiv(ret.priorities[i].items[j].gap_percentage, I(100))))

-----------------------------------------------------------------------------
(* The two tier classifiers side by side *)

\* LOW / MEDIUM / HIGH / CRITICAL of a label of either classifier
Tier(label) ==
    CASE label \in {"CRÍTICO", "CRÍTICA"} -> "CRITICAL"
      [] label \in {"ALTO", "ALTA"} -> "HIGH"
      [] label \in {"MEDIO", "MEDIA"} -> "MEDIUM"
      [] label \in {"BAJO", "BAJA"} -> "LOW"

\* C28: classify_gap and _get_priority_level assign the same tier to every
\* gap percentage that calculate_performance_gaps emits.
C28_SameTierEverywhere ==
    GapsReturned =>
        \A i \in DOMAIN ret.gaps_df.rows : \A m \in ret.gaps_df.columns :
            LET g == ret.gaps_df.rows[i].Gap_Percentage[m]
            IN Tier(classify_gap(g).priority) = Tier(_get_priority_level(g))

-----------------------------------------------------------------------------
(* calculate_roi behind the widgets, checked under SpecWidgets *)

\* C29: for every built-in Chilean port, every allowed investment and every
\* position of the target slider, calculate_roi does not return the
\* degenerate estimate: roi_percentage and productivity_improvement_pct are
\* finite, roi_percentage >= -100, and payback_years is +infinity only when
\* the target equals the current productivity.
C29_WidgetsNeverDegenerate ==
    roi.called =>
        /\ ~IsDegenerate(roi.result)
        /\ IsFin(roi.result.roi_percentage)
        /\ IsFin(roi.result.productivity_improvement_pct)
        /\ FGe(roi.result.roi_percentage, I(-100))
        /\ roi.result.payback_years = PosInf
              => roi.args.target_productivity = roi.args.current_productivity

\* the slider at its minimum: no improvement, payback +infinity, ROI -100
C29_Witness ==
    /\ roi.called
    /\ roi.args.target_productivity = roi.args.current_productivity
    /\ roi.args.investment = I(100000000)
    /\ roi.result.payback_years = PosInf
    /\ roi.result.roi_percentage = I(-100)
    /\ roi.result.productivity_improvement_pct = I(0)

-----------------------------------------------------------------------------
(* The installer: main of setup.py (lines 357-407) *)

\* line 362-368
Steps ==
    <<"install_requirements", "create_project_structure",
      "create_config_files", "create_launch_scripts", "create_readme">>

\* lines 14-23
Requirements ==
    <<"streamlit>=1.28.0", "pandas>=2.0.0", "plotly>=5.15.0",
      "requests>=2.31.0", "numpy>=1.24.0", "openpyxl>=3.1.0",
      "beautifulsoup4>=4.12.0", "python-dotenv>=1.0.0">>

RequirementSet == {Requirements[k] : k \in DOMAIN Requirements}

\* the step main is in
CurrentStep == installer.started[Len(installer.started)]

\* What a step other than install_requirements does when called.  The dict
\* literal of create_config_files names `true` (line 79), which Python
\* evaluates as a variable before any file is opened: NameError.  The other
\* steps write directories and files and return True; on a file system that
\* refuses the write, mkdir or open raises.
StepOutcome(step, writable) ==
    CASE step = "create_config_files" -> "NameError"
      [] OTHER -> IF writable THEN "True" ELSE "PermissionError"

\* the environment: the packages pip cannot install, and whether the working
\* directory can be written
InitInstaller ==
    /\ data = ConsolidatedTable
    /\ ret = NoReturn
    /\ roi = NoRoi
    /\ collector = NoCollection
    /\ \E failing \in SUBSET RequirementSet, writable \in BOOLEAN :
          installer = [NotInstalling EXCEPT !.failing = failing,
                                            !.writable = writable]

\* line 370-372: the loop calls the next step
BeginStep ==
    /\ installer.pc = "main"
    /\ Len(installer.started) = Len(installer.returned)
    /\ Len(installer.started) < Len(Steps)
    /\ IF installer.returned = <<>> THEN TRUE
       ELSE installer.returned[Len(installer.returned)] = "True"
    /\ installer' = [installer EXCEPT
                       !.started = Append(@, Steps[Len(@) + 1]),
                       !.pc = "step"]
    /\ UNCHANGED <<data, ret, roi, collector>>

\* lines 26-33: one turn of the loop over the requirements; the step returns
\* False at the first package pip fails on, True after the last one
PipInstall ==
    /\ installer.pc = "step"
    /\ CurrentStep = "install_requirements"
    /\ IF Requirements[installer.installed + 1] \in installer.failing
       THEN installer' = [installer EXCEPT !.returned = Append(@, "False"),
                                           !.pc = "main"]
       ELSE IF installer.installed + 1 = Len(Requirements)
       THEN installer' = [installer EXCEPT !.installed = @ + 1,
                                           !.returned = Append(@, "True"),
                                           !.pc = "main"]
       ELSE installer' = [installer EXCEPT !.installed = @ + 1]
    /\ UNCHANGED <<data, ret, roi, collector>>

\* a step that returns, or raises: main has no handler, the exception ends it
RunStep ==
    /\ installer.pc = "step"
    /\ CurrentStep # "install_requirements"
    /\ LET outcome == StepOutcome(CurrentStep, installer.writable)
       IN IF outcome = "True"
          THEN installer' = [installer EXCEPT !.returned = Append(@, "True"),
                                              !.pc = "main"]
          ELSE installer' = [installer EXCEPT !.result = outcome,
                                              !.pc = "done"]
    /\ UNCHANGED <<data, ret, roi, collector>>

\* lines 372-374 and 407
MainReturns ==
    /\ installer.pc = "main"
    /\ installer.returned # <<>>
    /\ Len(installer.started) = Len(installer.returned)
    /\ \/ /\ installer.returned[Len(installer.returned)] = "False"
          /\ installer' = [installer EXCEPT !.result = "False", !.pc = "done"]
       \/ /\ Len(installer.returned) = Len(Steps)
          /\ installer.returned[Len(installer.returned)] = "True"
          /\ installer' = [installer EXCEPT !.result = "True", !.pc = "done"]
    /\ UNCHANGED <<data, ret, roi, collector>>

NextInstaller ==
    \/ BeginStep
    \/ PipInstall
    \/ RunStep
    \/ MainReturns

SpecInstaller == InitInstaller /\ [][NextInstaller]_vars

\* every step before the k-th returned True
EarlierStepsSucceeded(k) ==
    \A j \in 1..(k - 1) :
        j <= Len(installer.returned) /\ installer.returned[j] = "True"

\* C30: the steps start in the order install_requirements,
\* create_project_structure, create_config_files, create_launch_scripts,
\* create_readme, each only after every earlier one returned True; main
\* returns False at the first step that returned False, with no later step
\* started; main returns True only after all five returned True; and a run
\* of main on a writable directory ends in one of these two ways.
C30_InstallerStepsInOrder ==
    /\ Len(installer.started) <= Len(Steps)
    /\ \A k \in DOMAIN installer.started :
          /\ installer.started[k] = Steps[k]
          /\ EarlierStepsSucceeded(k)
    /\ \A k \in DOMAIN installer.returned :
          installer.returned[k] = "False"
             => /\ Len(installer.started) = k
                /\ installer.result \in {"none", "False"}
    /\ installer.result = "False"
          => installer.returned[Len(installer.returned)] = "False"
    /\ installer.result = "True"
          => /\ Len(installer.returned) = Len(Steps)
             /\ \A k \in DOMAIN installer.returned : installer.returned[k] = "True"
    /\ (installer.pc = "done" /\ installer.writable)
          => installer.result \in {"True", "False"}

====
